---- MODULE Spec2Model ----
(***************************************************************************)
(* Model of the ISO 9001 QMS SDK: the risk manager with its register, the  *)
(* quality objectives manager, the audit manager, the validation /         *)
(* compliance scoring engine with its compliance report, the documentation *)
(* manager with its index, the MCP handlers of the risk tools, and two     *)
(* goroutines calling the risk manager at once.                            *)
(*                                                                         *)
(* Timestamps (time.Now(), Created, Modified, LastUpdated, LastAssessed)   *)
(* are left out of the state: no modelled decision reads them.             *)
(***************************************************************************)
EXTENDS Integers, Sequences, FiniteSets, TLC

VARIABLES rm, qom, am, org, result, score, report, err, mcp, dm, calls

vars == <<rm, qom, am, org, result, score, report, err, mcp, dm, calls>>

(***************************************************************************)
(* Bounds of the model                                                     *)
(***************************************************************************)
MaxMitigation == 1

MaxTopRisks == 11

(***************************************************************************)
(* Enumerations of iso9001.go                                              *)
(***************************************************************************)
RiskLevelVeryLow == "very_low"

RiskLevelLow == "low"

RiskLevelMedium == "medium"

RiskLevelHigh == "high"

RiskLevelVeryHigh == "very_high"

RiskLevels == {RiskLevelVeryLow, RiskLevelLow, RiskLevelMedium, RiskLevelHigh, RiskLevelVeryHigh}

PriorityLow == "low"

PriorityMedium == "medium"

PriorityHigh == "high"

PriorityCritical == "critical"

RiskStatusIdentified == "identified"

RiskStatusAssessed == "assessed"

RiskStatusMitigated == "mitigated"

RiskStatusMonitored == "monitored"

RiskStatuses == {RiskStatusIdentified, RiskStatusAssessed, RiskStatusMitigated, RiskStatusMonitored}

OpportunityStatusIdentified == "identified"

OpportunityStatusPlanned == "planned"

RiskTypeOperational == "operational"

(***************************************************************************)
(* Go compares strings byte by byte.  StringBytes gives the bytes of the   *)
(* RiskLevel strings (and of the zero value "").                           *)
(***************************************************************************)
StringBytes(s) ==
    CASE s = "" -> <<>>
      [] s = RiskLevelVeryLow -> <<118, 101, 114, 121, 95, 108, 111, 119>>
      [] s = RiskLevelLow -> <<108, 111, 119>>
      [] s = RiskLevelMedium -> <<109, 101, 100, 105, 117, 109>>
      [] s = RiskLevelHigh -> <<104, 105, 103, 104>>
      [] s = RiskLevelVeryHigh -> <<118, 101, 114, 121, 95, 104, 105, 103, 104>>

RECURSIVE BytesLess(_, _)
BytesLess(a, b) ==
    IF b = <<>> THEN FALSE
    ELSE IF a = <<>> THEN TRUE
    ELSE IF Head(a) # Head(b) THEN Head(a) < Head(b)
    ELSE BytesLess(Tail(a), Tail(b))

\* the Go operator >= on two strings
StringGE(a, b) == ~BytesLess(StringBytes(a), StringBytes(b))

(***************************************************************************)
(* Risk scoring helpers (risk_management.go)                               *)
(***************************************************************************)
\* getRiskScore on an ordinal scale 0..4, very_low below low
getRiskScore_Ordinal(level) ==
    CASE level = RiskLevelVeryHigh -> 4
      [] level = RiskLevelHigh -> 3
      [] level = RiskLevelMedium -> 2
      [] level = RiskLevelLow -> 1
      [] level = RiskLevelVeryLow -> 0
      [] OTHER -> 1

getRiskScore(level) ==
    CASE level = RiskLevelVeryHigh -> 4
      [] level = RiskLevelHigh -> 3
      [] level = RiskLevelMedium -> 2
      [] level = RiskLevelLow -> 1
      [] level = RiskLevelVeryLow -> 1
      [] OTHER -> 1

\* calculatePriority with the high threshold strict (> 9 for >= 9)
calculatePriority_StrictHigh(likelihood, impact) ==
    LET totalScore == getRiskScore(likelihood) * getRiskScore(impact)
    IN  IF totalScore >= 16 THEN PriorityCritical
        ELSE IF totalScore > 9 THEN PriorityHigh
        ELSE IF totalScore >= 4 THEN PriorityMedium
        ELSE PriorityLow

calculatePriority(likelihood, impact) ==
    LET likelihoodScore == getRiskScore(likelihood)
        impactScore == getRiskScore(impact)
        totalScore == likelihoodScore * impactScore
    IN  IF totalScore >= 16 THEN PriorityCritical
        ELSE IF totalScore >= 9 THEN PriorityHigh
        ELSE IF totalScore >= 4 THEN PriorityMedium
        ELSE PriorityLow

\* one RiskEntry of the register, built from the stored risk
RiskEntry(id, risk) ==
    [RiskID |-> id,
     Description |-> risk.Description,
     Type |-> RiskTypeOperational,
     Probability |-> risk.Likelihood,
     Impact |-> risk.Impact,
     RiskScore |-> getRiskScore(risk.Likelihood) * getRiskScore(risk.Impact),
     Priority |-> risk.Priority,
     Status |-> risk.Status]

\* The orders sort.Slice can leave the entries in: the entries are appended
\* in map iteration order, which Go leaves unspecified, and sorted by score
\* descending only, so entries of equal score may come out in any order.
RECURSIVE SortedOrders(_)
SortedOrders(entries) ==
    IF entries = {} THEN {<<>>}
    ELSE LET top == {e \in entries : \A f \in entries : e.RiskScore >= f.RiskScore}
         IN  UNION {{<<e>> \o t : t \in SortedOrders(entries \ {e})} : e \in top}

TopN == 10

\* updateRegister cutting the critical risks at 10 only from 12 risks on
updateRegister_LateCut(risks, register) ==
    {[register EXCEPT !.OrganizationRisks = orgRisks,
                      !.CriticalRisks = IF Len(orgRisks) > TopN + 1
                                        THEN SubSeq(orgRisks, 1, TopN)
                                        ELSE orgRisks] :
        orgRisks \in SortedOrders({RiskEntry(id, risks[id]) : id \in DOMAIN risks})}

\* the registers updateRegister can produce for the given Risks map
updateRegister(risks, register) ==
    {[register EXCEPT !.OrganizationRisks = orgRisks,
                      !.CriticalRisks = IF Len(orgRisks) > TopN
                                        THEN SubSeq(orgRisks, 1, TopN)
                                        ELSE orgRisks] :
        orgRisks \in SortedOrders({RiskEntry(id, risks[id]) : id \in DOMAIN risks})}

(***************************************************************************)
(* Queries of the risk manager                                             *)
(***************************************************************************)
\* the IDs of the risks GetCriticalRisks returns
GetCriticalRisks ==
    {id \in DOMAIN rm.Risks :
        /\ rm.Risks[id].Impact = RiskLevelVeryHigh
        /\ StringGE(rm.Risks[id].Likelihood, RiskLevelHigh)}

\* priorityOrder[p]: the zero value of int for a key the map does not hold
priorityOrder(p) ==
    IF p = PriorityLow THEN 1
    ELSE IF p = PriorityMedium THEN 2
    ELSE IF p = PriorityHigh THEN 3
    ELSE IF p = PriorityCritical THEN 4
    ELSE 0

comparePriority(a, b) == priorityOrder(a) - priorityOrder(b)

\* GetHighPriorityRisks keeping only the risks above the threshold
GetHighPriorityRisks_Strict(minPriority) ==
    {id \in DOMAIN rm.Risks : comparePriority(rm.Risks[id].Priority, minPriority) > 0}

\* the IDs of the risks GetHighPriorityRisks returns
GetHighPriorityRisks(minPriority) ==
    {id \in DOMAIN rm.Risks : comparePriority(rm.Risks[id].Priority, minPriority) >= 0}

(***************************************************************************)
(* Initial state: NewRiskManager()                                         *)
(***************************************************************************)
NewRiskManager ==
    [Risks |-> <<>>,
     Opportunities |-> <<>>,
     Register |-> [OrganizationRisks |-> <<>>,
                   ProcessRisks |-> <<>>,
                   CriticalRisks |-> <<>>,
                   MitigationActions |-> <<>>]]

NoError == "nil"

(***************************************************************************)
(* Operations of the risk manager                                          *)
(***************************************************************************)
\* rm.Risks[id] = risk: add or replace the entry of a Go map
MapPut(m, k, v) == [x \in DOMAIN m \cup {k} |-> IF x = k THEN v ELSE m[x]]

Fail(msg) ==
    /\ err' = msg
    /\ UNCHANGED <<rm, qom, am, org, result, score, report, mcp, dm, calls>>

\* IdentifyRisk storing the risk before it checks the description
IdentifyRisk_LateCheck(risk) ==
    IF risk.ID = "" THEN Fail("risk must have an ID")
    ELSE LET stored == [risk EXCEPT !.Status = RiskStatusIdentified]
             risks == MapPut(rm.Risks, risk.ID, stored)
         IN  /\ \E reg \in updateRegister(risks, rm.Register) :
                    rm' = [rm EXCEPT !.Risks = risks, !.Register = reg]
             /\ err' = IF risk.Description = "" THEN "risk must have a description"
                       ELSE NoError
             /\ UNCHANGED <<qom, am, org, result, score, report, mcp, dm, calls>>

IdentifyRisk(risk) ==
    IF risk.ID = "" THEN Fail("risk must have an ID")
    ELSE IF risk.Description = "" THEN Fail("risk must have a description")
    ELSE LET stored == [risk EXCEPT !.Status = RiskStatusIdentified]
             risks == MapPut(rm.Risks, risk.ID, stored)
         IN  /\ \E reg \in updateRegister(risks, rm.Register) :
                    rm' = [rm EXCEPT !.Risks = risks, !.Register = reg]
             /\ err' = NoError
             /\ UNCHANGED <<qom, am, org, result, score, report, mcp, dm, calls>>

AssessRisk(riskID, likelihood, impact) ==
    IF riskID \notin DOMAIN rm.Risks THEN Fail("risk not found")
    ELSE LET risks == [rm.Risks EXCEPT ![riskID] =
                          [@ EXCEPT !.Likelihood = likelihood,
                                    !.Impact = impact,
                                    !.Priority = calculatePriority(likelihood, impact),
                                    !.Status = RiskStatusAssessed]]
         IN  /\ \E reg \in updateRegister(risks, rm.Register) :
                    rm' = [rm EXCEPT !.Risks = risks, !.Register = reg]
             /\ err' = NoError
             /\ UNCHANGED <<qom, am, org, result, score, report, mcp, dm, calls>>

MitigateRisk(riskID, actions) ==
    IF riskID \notin DOMAIN rm.Risks THEN Fail("risk not found")
    ELSE LET risks == [rm.Risks EXCEPT ![riskID] =
                          [@ EXCEPT !.Mitigation = @ \o actions,
                                    !.Status = RiskStatusMitigated]]
         IN  /\ \E reg \in updateRegister(risks, rm.Register) :
                    rm' = [rm EXCEPT !.Risks = risks, !.Register = reg]
             /\ err' = NoError
             /\ UNCHANGED <<qom, am, org, result, score, report, mcp, dm, calls>>

\* MonitorRisk without the call of updateRegister
MonitorRisk_NoRegister(riskID, status) ==
    IF riskID \notin DOMAIN rm.Risks THEN Fail("risk not found")
    ELSE /\ rm' = [rm EXCEPT !.Risks[riskID].Status = status]
         /\ err' = NoError
         /\ UNCHANGED <<qom, am, org, result, score, report, mcp, dm, calls>>

MonitorRisk(riskID, status) ==
    IF riskID \notin DOMAIN rm.Risks THEN Fail("risk not found")
    ELSE LET risks == [rm.Risks EXCEPT ![riskID] = [@ EXCEPT !.Status = status]]
         IN  /\ \E reg \in updateRegister(risks, rm.Register) :
                    rm' = [rm EXCEPT !.Risks = risks, !.Register = reg]
             /\ err' = NoError
             /\ UNCHANGED <<qom, am, org, result, score, report, mcp, dm, calls>>

IdentifyOpportunity(opportunity) ==
    IF opportunity.ID = "" THEN Fail("opportunity must have an ID")
    ELSE IF opportunity.Description = "" THEN Fail("opportunity must have a description")
    ELSE LET stored == [opportunity EXCEPT !.Status = OpportunityStatusIdentified]
         IN  /\ \E reg \in updateRegister(rm.Risks, rm.Register) :
                    rm' = [rm EXCEPT !.Opportunities = MapPut(@, opportunity.ID, stored),
                                     !.Register = reg]
             /\ err' = NoError
             /\ UNCHANGED <<qom, am, org, result, score, report, mcp, dm, calls>>

RealizeOpportunity(opportunityID, actions) ==
    IF opportunityID \notin DOMAIN rm.Opportunities THEN Fail("opportunity not found")
    ELSE /\ \E reg \in updateRegister(rm.Risks, rm.Register) :
                rm' = [rm EXCEPT !.Opportunities[opportunityID] =
                                     [@ EXCEPT !.Actions = actions,
                                               !.Status = OpportunityStatusPlanned],
                                 !.Register = reg]
         /\ err' = NoError
         /\ UNCHANGED <<qom, am, org, result, score, report, mcp, dm, calls>>

(***************************************************************************)
(* Validation engine (validation.go)                                       *)
(*                                                                         *)
(* A nil pointer of the Organization graph is the record Nil; a Go slice   *)
(* is a sequence; a string field is a string, "" when unset; a time is an  *)
(* integer, 0 for the zero time.                                           *)
(***************************************************************************)
Nil == [nil |-> TRUE]

ValidationError(clause, field, message, severity) ==
    [Clause |-> clause, Field |-> field, Message |-> message, Severity |-> severity]

\* &ValidationResult{Valid: true}
NewResult == [Valid |-> TRUE, Errors |-> <<>>, Warnings |-> <<>>, Infos |-> <<>>]

\* merge taking the other result's validity as the validity of the whole
merge_LastValid(r, other) ==
    [Valid |-> other.Valid,
     Errors |-> r.Errors \o other.Errors,
     Warnings |-> r.Warnings \o other.Warnings,
     Infos |-> r.Infos \o other.Infos]

\* merge assigning the other result's errors where it should append them
merge_Overwrite(r, other) ==
    [Valid |-> IF ~other.Valid THEN FALSE ELSE r.Valid,
     Errors |-> other.Errors,
     Warnings |-> r.Warnings \o other.Warnings,
     Infos |-> r.Infos \o other.Infos]

merge(r, other) ==
    [Valid |-> IF ~other.Valid THEN FALSE ELSE r.Valid,
     Errors |-> r.Errors \o other.Errors,
     Warnings |-> r.Warnings \o other.Warnings,
     Infos |-> r.Infos \o other.Infos]

addError(r, clause, field, message) ==
    [r EXCEPT !.Errors = Append(@, ValidationError(clause, field, message, "error")),
              !.Valid = FALSE]

addWarning(r, clause, field, message) ==
    [r EXCEPT !.Warnings = Append(@, ValidationError(clause, field, message, "warning"))]

addInfo(r, clause, field, message) ==
    [r EXCEPT !.Infos = Append(@, ValidationError(clause, field, message, "info"))]

\* "if cond { r.addX(...) }" as one step of a checker
ErrorIf(cond, r, clause, field, message) ==
    IF cond THEN addError(r, clause, field, message) ELSE r

WarningIf(cond, r, clause, field, message) ==
    IF cond THEN addWarning(r, clause, field, message) ELSE r

InfoIf(cond, r, clause, field, message) ==
    IF cond THEN addInfo(r, clause, field, message) ELSE r

\* ---- clause 4.1 ----
RECURSIVE validateIssues(_, _, _)
validateIssues(r, issues, i) ==
    IF i > Len(issues) THEN r
    ELSE LET issue == issues[i]
             r1 == ErrorIf(issue.Description = "", r, "4.1",
                           "issue_" \o ToString(i - 1) \o "_description",
                           "Issue must have a description")
             r2 == ErrorIf(issue.Type = "", r1, "4.1",
                           "issue_" \o ToString(i - 1) \o "_type",
                           "Issue must have a type (external/internal)")
         IN  validateIssues(r2, issues, i + 1)

validateContext(o) ==
    IF o.Context = Nil
    THEN addError(NewResult, "4.1", "context", "Organizational context must be defined")
    ELSE LET r1 == WarningIf(Len(o.Context.ExternalIssues) = 0, NewResult, "4.1",
                             "external_issues",
                             "No external issues identified - consider reviewing legal, technological, competitive, market, cultural, social and economic environments")
             r2 == WarningIf(Len(o.Context.InternalIssues) = 0, r1, "4.1",
                             "internal_issues",
                             "No internal issues identified - consider reviewing values, culture, knowledge and performance")
         IN  validateIssues(r2, o.Context.ExternalIssues \o o.Context.InternalIssues, 1)

\* ---- clause 4.2 ----
RECURSIVE validateParties(_, _, _)
validateParties(r, parties, i) ==
    IF i > Len(parties) THEN r
    ELSE LET party == parties[i]
             r1 == ErrorIf(party.Name = "", r, "4.2", "party_name",
                           "Interested party must have a name")
             r2 == WarningIf(Len(party.Requirements) = 0, r1, "4.2",
                             "party_" \o party.Name \o "_requirements",
                             "No requirements specified for interested party")
         IN  validateParties(r2, parties, i + 1)

\* the supplier bucket filled by the type "supplier" alone
validateInterestedParties_SupplierOnly(o) ==
    IF o.Context = Nil \/ Len(o.Context.InterestedParties) = 0
    THEN addError(NewResult, "4.2", "interested_parties",
                  "Interested parties must be identified and their requirements determined")
    ELSE LET parties == o.Context.InterestedParties
             types == {parties[i].Type : i \in 1..Len(parties)}
             r1 == validateParties(NewResult, parties, 1)
             r2 == WarningIf("customer" \notin types, r1, "4.2", "customers",
                             "No customers identified as interested parties")
             r3 == WarningIf("supplier" \notin types, r2, "4.2", "suppliers",
                             "No suppliers/external providers identified as interested parties")
         IN  InfoIf(types \cap {"regulator", "authority"} = {}, r3, "4.2", "regulators",
                    "Consider identifying regulatory authorities as interested parties")

validateInterestedParties(o) ==
    IF o.Context = Nil \/ Len(o.Context.InterestedParties) = 0
    THEN addError(NewResult, "4.2", "interested_parties",
                  "Interested parties must be identified and their requirements determined")
    ELSE LET parties == o.Context.InterestedParties
             types == {parties[i].Type : i \in 1..Len(parties)}
             hasCustomers == "customer" \in types
             hasSuppliers == types \cap {"supplier", "external_provider"} # {}
             hasRegulators == types \cap {"regulator", "authority"} # {}
             r1 == validateParties(NewResult, parties, 1)
             r2 == WarningIf(~hasCustomers, r1, "4.2", "customers",
                             "No customers identified as interested parties")
             r3 == WarningIf(~hasSuppliers, r2, "4.2", "suppliers",
                             "No suppliers/external providers identified as interested parties")
         IN  InfoIf(~hasRegulators, r3, "4.2", "regulators",
                    "Consider identifying regulatory authorities as interested parties")

\* ---- clause 4.3 ----
RECURSIVE validateExclusions(_, _, _)
validateExclusions(r, exclusions, i) ==
    IF i > Len(exclusions) THEN r
    ELSE LET exclusion == exclusions[i]
             r1 == ErrorIf(exclusion.Clause = "", r, "4.3",
                           "exclusion_" \o ToString(i - 1) \o "_clause",
                           "Exclusion must specify which clause is not applicable")
             r2 == ErrorIf(exclusion.Justification = "", r1, "4.3",
                           "exclusion_" \o ToString(i - 1) \o "_justification",
                           "Exclusion must be justified and not affect organization's ability to meet requirements")
         IN  validateExclusions(r2, exclusions, i + 1)

validateQMSScope(o) ==
    IF o.QMS = Nil \/ o.QMS.Scope = Nil
    THEN addError(NewResult, "4.3", "scope", "QMS scope must be determined and documented")
    ELSE LET scope == o.QMS.Scope
             r1 == ErrorIf(scope.Description = "", NewResult, "4.3", "scope_description",
                           "Scope must include a description of products and services covered")
             r2 == ErrorIf(Len(scope.Products) = 0 /\ Len(scope.Services) = 0, r1, "4.3",
                           "scope_coverage",
                           "Scope must specify the types of products and services covered")
         IN  validateExclusions(r2, scope.Exclusions, 1)

\* ---- clause 4.4 ----
\* the checks of a process leaving the process at a missing criteria list
RECURSIVE validateProcessList_StopAtCriteria(_, _, _)
validateProcessList_StopAtCriteria(r, processes, i) ==
    IF i > Len(processes) THEN r
    ELSE LET process == processes[i]
             r1 == ErrorIf(process.Name = "", r, "4.4",
                           "process_" \o ToString(i - 1) \o "_name",
                           "Process must have a name")
             r2 == WarningIf(Len(process.Inputs) = 0, r1, "4.4",
                             "process_" \o process.Name \o "_inputs",
                             "Process inputs should be defined")
             r3 == WarningIf(Len(process.Outputs) = 0, r2, "4.4",
                             "process_" \o process.Name \o "_outputs",
                             "Process outputs should be defined")
             r4 == ErrorIf(Len(process.Responsibilities) = 0, r3, "4.4",
                           "process_" \o process.Name \o "_responsibilities",
                           "Process responsibilities and authorities must be assigned")
             r5 == ErrorIf(Len(process.Criteria) = 0, r4, "4.4",
                           "process_" \o process.Name \o "_criteria",
                           "Process criteria and methods for monitoring must be determined")
             r6 == InfoIf(Len(process.Risks) = 0 /\ Len(process.Criteria) # 0, r5, "4.4",
                          "process_" \o process.Name \o "_risks",
                          "Consider identifying risks and opportunities for this process")
         IN  validateProcessList_StopAtCriteria(r6, processes, i + 1)

RECURSIVE validateProcessList(_, _, _)
validateProcessList(r, processes, i) ==
    IF i > Len(processes) THEN r
    ELSE LET process == processes[i]
             r1 == ErrorIf(process.Name = "", r, "4.4",
                           "process_" \o ToString(i - 1) \o "_name",
                           "Process must have a name")
             r2 == WarningIf(Len(process.Inputs) = 0, r1, "4.4",
                             "process_" \o process.Name \o "_inputs",
                             "Process inputs should be defined")
             r3 == WarningIf(Len(process.Outputs) = 0, r2, "4.4",
                             "process_" \o process.Name \o "_outputs",
                             "Process outputs should be defined")
             r4 == ErrorIf(Len(process.Responsibilities) = 0, r3, "4.4",
                           "process_" \o process.Name \o "_responsibilities",
                           "Process responsibilities and authorities must be assigned")
             r5 == ErrorIf(Len(process.Criteria) = 0, r4, "4.4",
                           "process_" \o process.Name \o "_criteria",
                           "Process criteria and methods for monitoring must be determined")
             r6 == InfoIf(Len(process.Risks) = 0, r5, "4.4",
                          "process_" \o process.Name \o "_risks",
                          "Consider identifying risks and opportunities for this process")
         IN  validateProcessList(r6, processes, i + 1)

validateQMSProcesses(o) ==
    IF o.QMS = Nil \/ Len(o.QMS.Processes) = 0
    THEN addError(NewResult, "4.4", "processes",
                  "QMS processes must be established, implemented, maintained and continually improved")
    ELSE validateProcessList(NewResult, o.QMS.Processes, 1)

\* ---- clause 5.1 ----
requiredCommitments ==
    <<"qms_effectiveness", "quality_policy", "qms_integration", "process_approach",
      "risk_based_thinking", "resources_available", "importance_qms",
      "conformity_requirements", "qms_results", "personnel_engagement",
      "improvement", "customer_focus">>

\* the loop over the required commitments leaving at the first missing one
RECURSIVE validateCommitments_FirstOnly(_, _, _)
validateCommitments_FirstOnly(r, commitmentMap, i) ==
    IF i > Len(requiredCommitments) THEN r
    ELSE IF requiredCommitments[i] \notin commitmentMap
    THEN addError(r, "5.1", "leadership_commitment",
                  "Missing leadership commitment: " \o requiredCommitments[i])
    ELSE validateCommitments_FirstOnly(r, commitmentMap, i + 1)

RECURSIVE validateCommitments(_, _, _)
validateCommitments(r, commitmentMap, i) ==
    IF i > Len(requiredCommitments) THEN r
    ELSE validateCommitments(
             ErrorIf(requiredCommitments[i] \notin commitmentMap, r, "5.1",
                     "leadership_commitment",
                     "Missing leadership commitment: " \o requiredCommitments[i]),
             commitmentMap, i + 1)

validateLeadership(o) ==
    IF o.Leadership = Nil
    THEN addError(NewResult, "5.1", "leadership",
                  "Top management must demonstrate leadership and commitment")
    ELSE LET r1 == ErrorIf(Len(o.Leadership.TopManagement) = 0, NewResult, "5.1",
                           "top_management", "Top management must be identified")
             commitmentMap == {o.Leadership.Commitment[i] :
                                  i \in 1..Len(o.Leadership.Commitment)}
         IN  validateCommitments(r1, commitmentMap, 1)

\* ---- clause 5.2 ----
validateQualityPolicy(o) ==
    IF o.Leadership = Nil \/ o.Leadership.QualityPolicy = Nil
    THEN addError(NewResult, "5.2", "quality_policy",
                  "Quality policy must be established and maintained")
    ELSE LET policy == o.Leadership.QualityPolicy
             r1 == ErrorIf(policy.Statement = "", NewResult, "5.2", "policy_statement",
                           "Quality policy must include a statement of intent")
             r2 == ErrorIf(policy.Objectives = "", r1, "5.2", "policy_objectives",
                           "Quality policy must provide a framework for setting quality objectives")
             r3 == ErrorIf(policy.Commitment = "", r2, "5.2", "policy_commitment",
                           "Quality policy must include commitment to satisfy applicable requirements")
             r4 == ErrorIf(policy.Improvement = "", r3, "5.2", "policy_improvement",
                           "Quality policy must include commitment to continual improvement")
             r5 == ErrorIf(~policy.Communicated, r4, "5.2", "policy_communication",
                           "Quality policy must be communicated and understood within the organization")
         IN  ErrorIf(~policy.Available, r5, "5.2", "policy_availability",
                     "Quality policy must be available to relevant interested parties")

\* ---- clause 5.3 ----
RECURSIVE validateRoles(_, _, _)
validateRoles(r, roles, i) ==
    IF i > Len(roles) THEN r
    ELSE LET role == roles[i]
             r1 == ErrorIf(role.Name = "", r, "5.3",
                           "role_" \o ToString(i - 1) \o "_name", "Role must have a name")
             r2 == ErrorIf(Len(role.Responsibilities) = 0, r1, "5.3",
                           "role_" \o role.Name \o "_responsibilities",
                           "Role must have defined responsibilities")
             r3 == ErrorIf(Len(role.Authorities) = 0, r2, "5.3",
                           "role_" \o role.Name \o "_authorities",
                           "Role must have defined authorities")
             r4 == ErrorIf(role.AssignedTo = "", r3, "5.3",
                           "role_" \o role.Name \o "_assignment",
                           "Role must be assigned to a person")
         IN  validateRoles(r4, roles, i + 1)

validateRolesResponsibilities(o) ==
    IF o.Leadership = Nil \/ Len(o.Leadership.Roles) = 0
    THEN addError(NewResult, "5.3", "roles_responsibilities",
                  "Organizational roles, responsibilities and authorities must be assigned and communicated")
    ELSE validateRoles(NewResult, o.Leadership.Roles, 1)

\* ---- clause 6.1 ----
\* the sum that counts the first process only
SumLen_FirstOnly(processes, f, i) ==
    IF i > Len(processes) \/ i > 1 THEN 0 ELSE Len(processes[i][f])

RECURSIVE SumLen(_, _, _)
\* the sum over processes[i..] of the length of field f ("Risks" or "Opportunities")
SumLen(processes, f, i) ==
    IF i > Len(processes) THEN 0
    ELSE Len(processes[i][f]) + SumLen(processes, f, i + 1)

RECURSIVE validateRiskMitigations(_, _, _)
validateRiskMitigations(r, risks, i) ==
    IF i > Len(risks) THEN r
    ELSE validateRiskMitigations(
             WarningIf(Len(risks[i].Mitigation) = 0 /\ risks[i].Status # RiskStatusMitigated,
                       r, "6.1", "risk_" \o ToString(i - 1) \o "_mitigation",
                       "Risk should have mitigation actions defined"),
             risks, i + 1)

RECURSIVE validateOpportunityActions(_, _, _)
validateOpportunityActions(r, opportunities, i) ==
    IF i > Len(opportunities) THEN r
    ELSE validateOpportunityActions(
             InfoIf(Len(opportunities[i].Actions) = 0 /\ opportunities[i].Status # "realized",
                    r, "6.1", "opportunity_" \o ToString(i - 1) \o "_actions",
                    "Opportunity should have actions defined for realization"),
             opportunities, i + 1)

\* clause 6.1 staying silent about a missing QMS
validateRisksOpportunities_NilSilent(o) ==
    IF o.QMS = Nil
    THEN NewResult
    ELSE LET totalRisks == Len(o.QMS.Risks) + SumLen(o.QMS.Processes, "Risks", 1)
             totalOpportunities ==
                 Len(o.QMS.Opportunities) + SumLen(o.QMS.Processes, "Opportunities", 1)
             r1 == WarningIf(totalRisks = 0, NewResult, "6.1", "risks",
                             "No risks identified - risk-based thinking should be applied to planning")
             r2 == InfoIf(totalOpportunities = 0, r1, "6.1", "opportunities",
                          "Consider identifying opportunities for improvement")
             r3 == validateRiskMitigations(r2, o.QMS.Risks, 1)
         IN  validateOpportunityActions(r3, o.QMS.Opportunities, 1)

validateRisksOpportunities(o) ==
    IF o.QMS = Nil
    THEN addError(NewResult, "6.1", "qms",
                  "QMS must be defined to validate risks and opportunities")
    ELSE LET totalRisks == Len(o.QMS.Risks) + SumLen(o.QMS.Processes, "Risks", 1)
             totalOpportunities ==
                 Len(o.QMS.Opportunities) + SumLen(o.QMS.Processes, "Opportunities", 1)
             r1 == WarningIf(totalRisks = 0, NewResult, "6.1", "risks",
                             "No risks identified - risk-based thinking should be applied to planning")
             r2 == InfoIf(totalOpportunities = 0, r1, "6.1", "opportunities",
                          "Consider identifying opportunities for improvement")
             r3 == validateRiskMitigations(r2, o.QMS.Risks, 1)
         IN  validateOpportunityActions(r3, o.QMS.Opportunities, 1)

\* ---- clause 6.2 ----
RECURSIVE validateObjectives(_, _, _)
validateObjectives(r, objectives, i) ==
    IF i > Len(objectives) THEN r
    ELSE LET objective == objectives[i]
             r1 == ErrorIf(objective.Name = "", r, "6.2",
                           "objective_" \o ToString(i - 1) \o "_name",
                           "Quality objective must have a name")
             r2 == ErrorIf(~objective.Measurable, r1, "6.2",
                           "objective_" \o objective.Name \o "_measurable",
                           "Quality objectives must be measurable")
             r3 == ErrorIf(Len(objective.Targets) = 0, r2, "6.2",
                           "objective_" \o objective.Name \o "_targets",
                           "Quality objectives must have specific targets")
             r4 == ErrorIf(objective.Responsible = "", r3, "6.2",
                           "objective_" \o objective.Name \o "_responsible",
                           "Quality objectives must have responsible parties assigned")
             r5 == ErrorIf(objective.Timeline.TargetDate = 0, r4, "6.2",
                           "objective_" \o objective.Name \o "_timeline",
                           "Quality objectives must have target dates")
         IN  validateObjectives(r5, objectives, i + 1)

validateQualityObjectives(o) ==
    IF o.QMS = Nil \/ Len(o.QMS.Objectives) = 0
    THEN addError(NewResult, "6.2", "quality_objectives",
                  "Quality objectives must be established at relevant functions and levels")
    ELSE validateObjectives(NewResult, o.QMS.Objectives, 1)

\* ---- the aggregate ----
ValidateOrganization(o) ==
    LET r0 == NewResult
        r1 == merge(r0, validateContext(o))
        r2 == merge(r1, validateInterestedParties(o))
        r3 == merge(r2, validateQMSScope(o))
        r4 == merge(r3, validateQMSProcesses(o))
        r5 == merge(r4, validateLeadership(o))
        r6 == merge(r5, validateQualityPolicy(o))
        r7 == merge(r6, validateRolesResponsibilities(o))
        r8 == merge(r7, validateRisksOpportunities(o))
    IN  merge(r8, validateQualityObjectives(o))

(***************************************************************************)
(* Compliance score.  The float64 result 100.0 * (1.0 - p/m) is kept as    *)
(* the exact fraction num/den = 100*(m - p)/m; p and m are small integers, *)
(* so two results are equal as float64 exactly when the fractions are.     *)
(***************************************************************************)
\* int(float64(n) * 0.5): conversion to int truncates toward zero
infoPointsOf(n) == n \div 2

Fraction(n, d) == [num |-> n, den |-> d]

\* the score as the share of the penalty, without the "1.0 -"
GetComplianceScore_PenaltyShare(o) ==
    LET res == ValidateOrganization(o)
        totalChecks == Len(res.Errors) + Len(res.Warnings) + Len(res.Infos)
        totalPenaltyPoints ==
            Len(res.Errors) * 3 + Len(res.Warnings) * 1 + infoPointsOf(Len(res.Infos))
        maxPossiblePoints == totalChecks * 3
    IN  IF totalChecks = 0 THEN Fraction(100, 1)
        ELSE Fraction(100 * totalPenaltyPoints, maxPossiblePoints)

\* the score with a warning weighing 2 points
GetComplianceScore_WarningsDouble(o) ==
    LET res == ValidateOrganization(o)
        totalChecks == Len(res.Errors) + Len(res.Warnings) + Len(res.Infos)
        totalPenaltyPoints ==
            Len(res.Errors) * 3 + Len(res.Warnings) * 2 + infoPointsOf(Len(res.Infos))
        maxPossiblePoints == totalChecks * 3
    IN  IF totalChecks = 0 THEN Fraction(100, 1)
        ELSE IF maxPossiblePoints - totalPenaltyPoints < 0 THEN Fraction(0, 1)
        ELSE Fraction(100 * (maxPossiblePoints - totalPenaltyPoints), maxPossiblePoints)

GetComplianceScore(o) ==
    LET res == ValidateOrganization(o)
        totalChecks == Len(res.Errors) + Len(res.Warnings) + Len(res.Infos)
        errorPoints == Len(res.Errors) * 3
        warningPoints == Len(res.Warnings) * 1
        infoPoints == infoPointsOf(Len(res.Infos))
        totalPenaltyPoints == errorPoints + warningPoints + infoPoints
        maxPossiblePoints == totalChecks * 3
    IN  IF totalChecks = 0 THEN Fraction(100, 1)
        ELSE IF maxPossiblePoints = 0 THEN Fraction(100, 1)
        ELSE IF maxPossiblePoints - totalPenaltyPoints < 0 THEN Fraction(0, 1)
        ELSE Fraction(100 * (maxPossiblePoints - totalPenaltyPoints), maxPossiblePoints)

\* ValidateQMSCompliance: the error it returns, NoError for nil
ValidateQMSCompliance(o) ==
    IF ~ValidateOrganization(o).Valid
    THEN "QMS is not compliant with ISO 9001:2015 requirements"
    ELSE NoError

(***************************************************************************)
(* Compliance report (GenerateComplianceReport)                            *)
(***************************************************************************)
\* score >= n for a score kept as a fraction and an integer n
FractionGE(f, n) == f.num >= n * f.den

\* a <= b for two scores kept as fractions
FractionLE(a, b) == a.num * b.den <= b.num * a.den

\* the switch taking 80 itself for the lower band
OverallCompliance_StrictGood(s) ==
    IF FractionGE(s, 90) THEN "Excellent"
    ELSE IF ~FractionLE(s, Fraction(80, 1)) THEN "Good"
    ELSE IF FractionGE(s, 70) THEN "Satisfactory"
    ELSE IF FractionGE(s, 60) THEN "Needs Improvement"
    ELSE "Critical Gaps"

\* the switch on the score that sets report.OverallCompliance
OverallCompliance(s) ==
    IF FractionGE(s, 90) THEN "Excellent"
    ELSE IF FractionGE(s, 80) THEN "Good"
    ELSE IF FractionGE(s, 70) THEN "Satisfactory"
    ELSE IF FractionGE(s, 60) THEN "Needs Improvement"
    ELSE "Critical Gaps"

CriticalGapsOf(res) ==
    LET errors == SelectSeq(res.Errors, LAMBDA e : e.Severity = "error")
    IN  [i \in 1..Len(errors) |->
            [Clause |-> errors[i].Clause, Description |-> errors[i].Message,
             Severity |-> "Critical", Priority |-> PriorityHigh]]

ImprovementAreasOf(res) ==
    [i \in 1..Len(res.Warnings) |->
        [Area |-> res.Warnings[i].Field, Description |-> res.Warnings[i].Message,
         Priority |-> PriorityMedium]]

RecommendationsOf(gaps, areas) ==
    (IF Len(gaps) > 0
     THEN <<"Address critical compliance gaps immediately",
            "Implement corrective actions for identified nonconformities",
            "Strengthen QMS documentation and procedures">>
     ELSE <<>>)
    \o (IF Len(areas) > 0
        THEN <<"Develop action plans for improvement areas",
               "Enhance monitoring and measurement processes",
               "Provide additional training where needed">>
        ELSE <<>>)

StrengthsOf(o) ==
    (IF o.QMS # Nil /\ Len(o.QMS.Processes) > 0
     THEN <<"Processes are defined and documented">> ELSE <<>>)
    \o (IF o.Leadership # Nil /\ o.Leadership.QualityPolicy # Nil
        THEN <<"Quality policy is established and communicated">> ELSE <<>>)

\* the report GenerateComplianceReport builds from the validation result
\* and the score of the organization
ComplianceReport(o, res, s) ==
    [OrganizationID |-> o.ID,
     ComplianceScore |-> s,
     OverallCompliance |-> OverallCompliance(s),
     CriticalGaps |-> CriticalGapsOf(res),
     ImprovementAreas |-> ImprovementAreasOf(res),
     Strengths |-> StrengthsOf(o),
     Recommendations |-> RecommendationsOf(CriticalGapsOf(res), ImprovementAreasOf(res))]

\* the report carrying the whole percents of the score only
GenerateComplianceReport_WholePercent(o) ==
    LET s == GetComplianceScore(o)
    IN  ComplianceReport(o, ValidateOrganization(o), Fraction(s.num \div s.den, 1))

GenerateComplianceReport(o) ==
    ComplianceReport(o, ValidateOrganization(o), GetComplianceScore(o))

(***************************************************************************)
(* Quality objectives manager (risk_management.go)                         *)
(***************************************************************************)
ObjectiveStatusPlanned == "planned"

ObjectiveStatusInProgress == "in_progress"

ObjectiveStatusAchieved == "achieved"

NewQualityObjectivesManager ==
    [Objectives |-> <<>>,
     Tracker |-> [ProgressReports |-> <<>>, Achievements |-> <<>>, Trends |-> <<>>]]

CreateObjective(objective) ==
    IF objective.ID = "" THEN Fail("objective must have an ID")
    ELSE IF objective.Name = "" THEN Fail("objective must have a name")
    ELSE IF ~objective.Measurable THEN Fail("quality objectives must be measurable")
    ELSE IF Len(objective.Targets) = 0 THEN Fail("objective must have targets")
    ELSE IF objective.Responsible = "" THEN Fail("objective must have a responsible party")
    ELSE /\ qom' = [qom EXCEPT !.Objectives =
                        MapPut(@, objective.ID,
                               [objective EXCEPT !.Status = ObjectiveStatusPlanned])]
         /\ err' = NoError
         /\ UNCHANGED <<rm, am, org, result, score, report, mcp, dm, calls>>

UpdateObjectiveProgress(objectiveID, progress) ==
    IF objectiveID \notin DOMAIN qom.Objectives THEN Fail("objective not found")
    ELSE LET progressReport == [progress EXCEPT !.ObjectiveID = objectiveID]
             achievement == [ObjectiveID |-> objectiveID,
                             AchievedDate |-> progress.Date,
                             Evidence |-> progress.Comments]
         IN  /\ qom' = [qom EXCEPT
                    !.Tracker.ProgressReports = Append(@, progressReport),
                    !.Tracker.Achievements =
                        IF progress.Progress >= 100 THEN Append(@, achievement) ELSE @,
                    !.Objectives[objectiveID].Status =
                        IF progress.Progress >= 100 THEN ObjectiveStatusAchieved
                        ELSE IF progress.Progress > 0 THEN ObjectiveStatusInProgress
                        ELSE @]
             /\ err' = NoError
             /\ UNCHANGED <<rm, am, org, result, score, report, mcp, dm, calls>>

(***************************************************************************)
(* Audit manager (audit.go)                                                *)
(*                                                                         *)
(* am.Audits maps an ID to the *Audit the caller handed to CreateAudit; a  *)
(* nil *AuditReport is Nil, a nil *time.Time is NilTime and a time is a    *)
(* positive integer.                                                       *)
(***************************************************************************)
NilTime == 0

AuditStatusPlanned == "planned"
AuditStatusInProgress == "in_progress"
AuditStatusCompleted == "completed"
AuditStatusReported == "reported"
AuditStatusClosed == "closed"

NewAuditManager == [Audits |-> <<>>, ManagementReviews |-> <<>>]

CreateAudit(audit) ==
    IF audit.ID = "" THEN Fail("audit must have an ID")
    ELSE IF audit.Title = "" THEN Fail("audit must have a title")
    ELSE IF audit.Scope.Description = "" THEN Fail("audit must have a defined scope")
    ELSE /\ am' = [am EXCEPT !.Audits =
                       MapPut(@, audit.ID,
                              [audit EXCEPT !.Status = AuditStatusPlanned])]
         /\ err' = NoError
         /\ UNCHANGED <<rm, qom, org, result, score, report, mcp, dm, calls>>

\* StartAudit without the check of the planned status
StartAudit_Unguarded(auditID, startDate) ==
    IF auditID \notin DOMAIN am.Audits
    THEN Fail("audit with ID " \o auditID \o " not found")
    ELSE /\ am' = [am EXCEPT !.Audits[auditID] =
                       [@ EXCEPT !.ActualStartDate = startDate,
                                 !.Status = AuditStatusInProgress]]
         /\ err' = NoError
         /\ UNCHANGED <<rm, qom, org, result, score, report, mcp, dm, calls>>

StartAudit(auditID, startDate) ==
    IF auditID \notin DOMAIN am.Audits
    THEN Fail("audit with ID " \o auditID \o " not found")
    ELSE IF am.Audits[auditID].Status # AuditStatusPlanned
    THEN Fail("audit is not in planned status")
    ELSE /\ am' = [am EXCEPT !.Audits[auditID] =
                       [@ EXCEPT !.ActualStartDate = startDate,
                                 !.Status = AuditStatusInProgress]]
         /\ err' = NoError
         /\ UNCHANGED <<rm, qom, org, result, score, report, mcp, dm, calls>>

AddFinding(auditID, finding) ==
    IF auditID \notin DOMAIN am.Audits
    THEN Fail("audit with ID " \o auditID \o " not found")
    ELSE /\ am' = [am EXCEPT !.Audits[auditID].Findings = Append(@, finding)]
         /\ err' = NoError
         /\ UNCHANGED <<rm, qom, org, result, score, report, mcp, dm, calls>>

\* CompleteAudit refusing an audit that is not in progress
CompleteAudit_OnlyInProgress(auditID, endDate, auditReport) ==
    IF auditID \notin DOMAIN am.Audits
    THEN Fail("audit with ID " \o auditID \o " not found")
    ELSE IF am.Audits[auditID].Status # AuditStatusInProgress
    THEN Fail("audit is not in progress")
    ELSE /\ am' = [am EXCEPT !.Audits[auditID] =
                       [@ EXCEPT !.ActualEndDate = endDate,
                                 !.Report = auditReport,
                                 !.Status = AuditStatusCompleted]]
         /\ err' = NoError
         /\ UNCHANGED <<rm, qom, org, result, score, report, mcp, dm, calls>>

CompleteAudit(auditID, endDate, auditReport) ==
    IF auditID \notin DOMAIN am.Audits
    THEN Fail("audit with ID " \o auditID \o " not found")
    ELSE /\ am' = [am EXCEPT !.Audits[auditID] =
                       [@ EXCEPT !.ActualEndDate = endDate,
                                 !.Report = auditReport,
                                 !.Status = AuditStatusCompleted]]
         /\ err' = NoError
         /\ UNCHANGED <<rm, qom, org, result, score, report, mcp, dm, calls>>

\* the caller keeps the *Audit it handed to CreateAudit and writes the
\* exported Status field through it: the later stages of the audit life
\* cycle have no method of the manager
SetAuditStatus(auditID, status) ==
    /\ auditID \in DOMAIN am.Audits
    /\ am' = [am EXCEPT !.Audits[auditID].Status = status]
    /\ UNCHANGED <<rm, qom, org, result, score, report, err, mcp, dm, calls>>

(***************************************************************************)
(* The caller's call of the validation engine on an Organization snapshot  *)
(***************************************************************************)
Validate ==
    /\ result = Nil
    /\ result' = ValidateOrganization(org)
    /\ score' = GetComplianceScore(org)
    /\ UNCHANGED <<rm, qom, am, org, report, err, mcp, dm, calls>>

\* the caller's call of GenerateComplianceReport on the snapshot
GenerateReport ==
    /\ report' = GenerateComplianceReport(org)
    /\ UNCHANGED <<rm, qom, am, org, result, score, err, mcp, dm, calls>>

(***************************************************************************)
(* Inputs of the risk manager specification                                *)
(***************************************************************************)
RiskIDs == {"R1", "R2"}

\* a Risk as the caller hands it to IdentifyRisk: fresh, or with likelihood,
\* impact and priority already filled in
Risk(id, description, likelihood, impact, priority) ==
    [ID |-> id, Description |-> description, Likelihood |-> likelihood,
     Impact |-> impact, Priority |-> priority, Mitigation |-> <<>>, Status |-> ""]

RiskInputs ==
    {Risk(id, d, "", "", "") : id \in RiskIDs \cup {""}, d \in {"risk", ""}}
    \cup {Risk(id, "risk", RiskLevelVeryHigh, RiskLevelVeryHigh, "") : id \in RiskIDs}

ActionInputs == {<<>>, <<[ID |-> "A1", Status |-> "planned"]>>}

(***************************************************************************)
(* Documentation manager (clause 7.5)                                      *)
(*                                                                         *)
(* dm.Documents maps an ID to the document stored under it; each map of    *)
(* dm.Index takes a key to the list of document IDs appended under it, a   *)
(* key that was never written having the nil list.  Of a document the      *)
(* model keeps the fields the manager reads or writes.                     *)
(***************************************************************************)
DocumentStatusDraft == "draft"

DocumentStatusReview == "review"

DocumentStatusApproved == "approved"

DocumentStatusArchived == "archived"

ApprovalStatusApproved == "approved"

NewDocumentationManager ==
    [Documents |-> <<>>,
     Index |-> [ByType |-> <<>>, ByCategory |-> <<>>, ByStatus |-> <<>>,
                ByClause |-> <<>>, ByKeyword |-> <<>>]]

\* index[key] of a Go map of slices: the nil slice for a key never written
Bucket(index, key) == IF key \in DOMAIN index THEN index[key] ELSE <<>>

\* index[key] = append(index[key], docID)
appendID(index, key, docID) == MapPut(index, key, Append(Bucket(index, key), docID))

\* the loop "for _, key := range keys { index[key] = append(index[key], docID) }"
RECURSIVE appendIDs(_, _, _, _)
appendIDs(index, keys, i, docID) ==
    IF i > Len(keys) THEN index
    ELSE appendIDs(appendID(index, keys[i], docID), keys, i + 1, docID)

\* the body of removeFromIndex is a comment: the index is left as it is
removeFromIndex(index, docID) == index

updateIndex(index, doc) ==
    LET old == removeFromIndex(index, doc.ID)
    IN  [ByType |-> appendID(old.ByType, doc.Type, doc.ID),
         ByCategory |-> appendID(old.ByCategory, doc.Category, doc.ID),
         ByStatus |-> appendID(old.ByStatus, doc.Status, doc.ID),
         ByClause |-> appendIDs(old.ByClause, doc.Metadata.RelatedClauses, 1, doc.ID),
         ByKeyword |-> appendIDs(old.ByKeyword, doc.Metadata.Keywords, 1, doc.ID)]

getNextVersion(currentVersion) == currentVersion \o ".1"

hasAllRequiredApprovals(doc) ==
    IF doc.Approval = Nil THEN FALSE
    ELSE LET approvedBy == {doc.Approval.ActualApprovers[i].ApproverID :
                               i \in 1..Len(doc.Approval.ActualApprovers)}
         IN  \A i \in 1..Len(doc.Approval.RequiredApprovers) :
                 doc.Approval.RequiredApprovers[i] \in approvedBy

\* dm.Documents[doc.ID] = doc; dm.updateIndex(doc); return nil
Store(doc) ==
    /\ dm' = [Documents |-> MapPut(dm.Documents, doc.ID, doc),
              Index |-> updateIndex(dm.Index, doc)]
    /\ err' = NoError
    /\ UNCHANGED <<rm, qom, am, org, result, score, report, mcp, calls>>

NotFound(docID) == Fail("document with ID " \o docID \o " not found")

AddDocument(doc) ==
    IF doc.ID = "" THEN Fail("document must have an ID")
    ELSE IF doc.Title = "" THEN Fail("document must have a title")
    ELSE Store([doc EXCEPT !.Status = DocumentStatusDraft,
                           !.Versions = IF Len(@) = 0 THEN <<"1.0">> ELSE @])

UpdateDocument(docID, updates) ==
    IF docID \notin DOMAIN dm.Documents THEN NotFound(docID)
    ELSE LET existing == dm.Documents[docID]
         IN  Store([updates EXCEPT
                       !.ID = existing.ID,
                       !.Versions = Append(existing.Versions,
                           getNextVersion(existing.Versions[Len(existing.Versions)]))])

ApproveDocument(docID, approver) ==
    IF docID \notin DOMAIN dm.Documents THEN NotFound(docID)
    ELSE LET doc == dm.Documents[docID]
             approval == IF doc.Approval = Nil
                         THEN [RequiredApprovers |-> <<>>, ActualApprovers |-> <<>>,
                               Status |-> ""]
                         ELSE doc.Approval
             signed == [doc EXCEPT !.Approval =
                           [approval EXCEPT !.ActualApprovers = Append(@, approver)]]
         IN  Store(IF hasAllRequiredApprovals(signed)
                   THEN [signed EXCEPT !.Approval.Status = ApprovalStatusApproved,
                                       !.Status = DocumentStatusApproved]
                   ELSE signed)

ReviewDocument(docID, review) ==
    IF docID \notin DOMAIN dm.Documents THEN NotFound(docID)
    ELSE Store([dm.Documents[docID] EXCEPT !.Review = review])

ArchiveDocument(docID, reason) ==
    IF docID \notin DOMAIN dm.Documents THEN NotFound(docID)
    ELSE Store([dm.Documents[docID] EXCEPT
                   !.Status = DocumentStatusArchived,
                   !.Versions = Append(@, getNextVersion(@[Len(@)]))])

(***************************************************************************)
(* IdentifyRisk called from two goroutines on one RiskManager              *)
(*                                                                         *)
(* The manager holds no lock, so the statements of two calls interleave.   *)
(* calls.Of[g] is the call of goroutine g: the risk it was handed, the     *)
(* statement it is at and the orgRisks slice of its updateRegister.  A map *)
(* write is a step that begins and a step that ends; a map access that     *)
(* meets a write in progress is a data race, after which the runtime       *)
(* either stops the program ("concurrent map writes", "concurrent map      *)
(* iteration and map write") or lets both accesses go on.                  *)
(* calls.Interleaved records that a goroutine took a step while the call   *)
(* of the other was under way.                                             *)
(***************************************************************************)
NoCalls == [Of |-> <<>>, Interleaved |-> FALSE, Fatal |-> FALSE]

Goroutines == {1, 2}

Other(g) == CHOOSE h \in Goroutines : h # g

UnderWay(g) == calls.Of[g].pc \notin {"start", "done"}

\* goroutine g moves to statement pc with the locals given
Step(g, pc, entries, orgRisks) ==
    calls' = [calls EXCEPT !.Of[g].pc = pc,
                           !.Of[g].entries = entries,
                           !.Of[g].orgRisks = orgRisks,
                           !.Interleaved = @ \/ UnderWay(Other(g))]

\* the runtime finds the map being written by the other goroutine
Throw ==
    /\ calls' = [calls EXCEPT !.Fatal = TRUE, !.Interleaved = TRUE]
    /\ UNCHANGED <<rm, qom, am, org, result, score, report, err, mcp, dm>>

Running(g, pc) == ~calls.Fatal /\ calls.Of[g].pc = pc

\* the tests of risk.ID and risk.Description
CheckRisk(g) ==
    /\ Running(g, "start")
    /\ LET risk == calls.Of[g].risk
       IN  IF risk.ID = "" \/ risk.Description = ""
           THEN /\ Step(g, "done", {}, <<>>)
                /\ err' = IF risk.ID = "" THEN "risk must have an ID"
                          ELSE "risk must have a description"
                /\ UNCHANGED <<rm, qom, am, org, result, score, report, mcp, dm>>
           ELSE /\ Step(g, "store", {}, <<>>)
                /\ UNCHANGED <<rm, qom, am, org, result, score, report, err, mcp, dm>>

\* rm.Risks[risk.ID] = risk begins
BeginWrite(g) ==
    /\ Running(g, "store")
    /\ \/ /\ Step(g, "writing", {}, <<>>)
          /\ UNCHANGED <<rm, qom, am, org, result, score, report, err, mcp, dm>>
       \/ /\ calls.Of[Other(g)].pc = "writing"
          /\ Throw

\* rm.Risks[risk.ID] = risk ends: the map holds the risk
EndWrite(g) ==
    /\ Running(g, "writing")
    /\ LET risk == calls.Of[g].risk
       IN  rm' = [rm EXCEPT !.Risks = MapPut(@, risk.ID,
                                [risk EXCEPT !.Status = RiskStatusIdentified])]
    /\ Step(g, "written", {}, <<>>)
    /\ UNCHANGED <<qom, am, org, result, score, report, err, mcp, dm>>

\* the loop of updateRegister leaving before the last risk of the map
rangeRisks_CutShort(risks) ==
    IF Cardinality(DOMAIN risks) <= 1
    THEN {RiskEntry(id, risks[id]) : id \in DOMAIN risks}
    ELSE LET skipped == CHOOSE id \in DOMAIN risks : TRUE
         IN  {RiskEntry(id, risks[id]) : id \in DOMAIN risks \ {skipped}}

\* the entries the loop "for id, risk := range rm.Risks" appends to orgRisks
rangeRisks(risks) == {RiskEntry(id, risks[id]) : id \in DOMAIN risks}

\* updateRegister ranges over rm.Risks
BuildEntries(g) ==
    /\ Running(g, "written")
    /\ \/ /\ Step(g, "built", rangeRisks(rm.Risks), <<>>)
          /\ UNCHANGED <<rm, qom, am, org, result, score, report, err, mcp, dm>>
       \/ /\ calls.Of[Other(g)].pc = "writing"
          /\ Throw

\* sort.Slice(orgRisks, ...)
SortEntries(g) ==
    /\ Running(g, "built")
    /\ \E orgRisks \in SortedOrders(calls.Of[g].entries) :
           Step(g, "sorted", calls.Of[g].entries, orgRisks)
    /\ UNCHANGED <<rm, qom, am, org, result, score, report, err, mcp, dm>>

\* rm.Register.OrganizationRisks = orgRisks, the critical risks, return nil
AssignRegister(g) ==
    /\ Running(g, "sorted")
    /\ LET orgRisks == calls.Of[g].orgRisks
       IN  rm' = [rm EXCEPT !.Register.OrganizationRisks = orgRisks,
                            !.Register.CriticalRisks =
                                IF Len(orgRisks) > TopN THEN SubSeq(orgRisks, 1, TopN)
                                ELSE orgRisks]
    /\ Step(g, "done", calls.Of[g].entries, calls.Of[g].orgRisks)
    /\ err' = NoError
    /\ UNCHANGED <<qom, am, org, result, score, report, mcp, dm>>

(***************************************************************************)
(* MCP tool handlers of the risk tools (package main)                      *)
(*                                                                         *)
(* mcp is the session of one client: the Unix time of the last call that   *)
(* read the clock, the risk IDs qms_identify_risk has returned and the     *)
(* result of the last tool call.  The arguments of a call are a map from   *)
(* argument names to strings.  Every handler builds its own RiskManager    *)
(* with NewRiskManager(); the Causes and Effects of a risk are left out.   *)
(***************************************************************************)
NewMCPServer == [Clock |-> 1, Issued |-> {}, Response |-> Nil]

\* a tool result: Kind is "text" for NewToolResultText, "tool_error" for
\* NewToolResultError and "go_error" for a handler that returns an error
ToolResult(kind, text, risk) == [Kind |-> kind, Text |-> text, Risk |-> risk]

\* RiskManager.IdentifyRisk on the manager of a handler: the managers and
\* errors the call can leave
IdentifyRiskOn(manager, risk) ==
    IF risk.ID = "" THEN {[rm |-> manager, err |-> "risk must have an ID"]}
    ELSE IF risk.Description = ""
    THEN {[rm |-> manager, err |-> "risk must have a description"]}
    ELSE LET risks == MapPut(manager.Risks, risk.ID,
                             [risk EXCEPT !.Status = RiskStatusIdentified])
         IN  {[rm |-> [manager EXCEPT !.Risks = risks, !.Register = reg],
               err |-> NoError] : reg \in updateRegister(risks, manager.Register)}

\* RiskManager.MitigateRisk on the manager of a handler
MitigateRiskOn(manager, riskID, actions) ==
    IF riskID \notin DOMAIN manager.Risks
    THEN {[rm |-> manager, err |-> "risk not found"]}
    ELSE LET risks == [manager.Risks EXCEPT ![riskID] =
                          [@ EXCEPT !.Mitigation = @ \o actions,
                                    !.Status = RiskStatusMitigated]]
         IN  {[rm |-> [manager EXCEPT !.Risks = risks, !.Register = reg],
               err |-> NoError] : reg \in updateRegister(risks, manager.Register)}

\* json.Unmarshal of actions_json into []Action, for the texts the client
\* sends: an empty array, an array of one action, and a text that is not
\* JSON
unmarshalActions(text) ==
    IF text = "[]" THEN [ok |-> TRUE, actions |-> <<>>]
    ELSE IF text = "[{\"id\":\"A1\"}]"
    THEN [ok |-> TRUE, actions |-> <<[ID |-> "A1", Status |-> ""]>>]
    ELSE [ok |-> FALSE, actions |-> <<>>]

\* the ID handleIdentifyRisk gives a risk at the Unix time now
RiskIDAt(now) == "RISK-" \o ToString(now)

Respond(toolResult) ==
    /\ mcp' = [mcp EXCEPT !.Response = toolResult]
    /\ UNCHANGED <<rm, qom, am, org, result, score, report, err, dm, calls>>

handleIdentifyRisk(args, now) ==
    /\ now >= mcp.Clock
    /\ IF "description" \notin DOMAIN args
       THEN Respond(ToolResult("tool_error", "Missing description", Nil))
       ELSE LET risk == Risk(RiskIDAt(now), args.description, "", "", "")
            IN  \E out \in IdentifyRiskOn(NewRiskManager, risk) :
                    IF out.err # NoError
                    THEN Respond(ToolResult("go_error",
                                            "failed to identify risk: " \o out.err, Nil))
                    ELSE /\ mcp' = [Clock |-> now,
                                    Issued |-> mcp.Issued \cup {risk.ID},
                                    Response |-> ToolResult("text",
                                        "Risk identified successfully", out.rm.Risks[risk.ID])]
                         /\ UNCHANGED <<rm, qom, am, org, result, score, report, err, dm, calls>>

handleMitigateRisk(args) ==
    IF "risk_id" \notin DOMAIN args
    THEN Respond(ToolResult("tool_error", "Missing risk_id", Nil))
    ELSE IF "actions_json" \notin DOMAIN args
    THEN Respond(ToolResult("tool_error", "Missing actions_json", Nil))
    ELSE LET parsed == unmarshalActions(args.actions_json)
         IN  IF ~parsed.ok
             THEN Respond(ToolResult("tool_error", "Invalid actions JSON", Nil))
             ELSE \E out \in MitigateRiskOn(NewRiskManager, args.risk_id, parsed.actions) :
                      IF out.err # NoError
                      THEN Respond(ToolResult("tool_error",
                               "Failed to mitigate risk: " \o out.err, Nil))
                      ELSE Respond(ToolResult("text",
                               "Risk mitigation added successfully",
                               out.rm.Risks[args.risk_id]))

(***************************************************************************)
(* Specification of the risk manager                                       *)
(***************************************************************************)
Init ==
    /\ rm = NewRiskManager
    /\ qom = NewQualityObjectivesManager
    /\ am = NewAuditManager
    /\ org = Nil
    /\ result = Nil
    /\ score = Nil
    /\ report = Nil
    /\ mcp = NewMCPServer
    /\ dm = NewDocumentationManager
    /\ calls = NoCalls
    /\ err = NoError

\* the levels AssessRisk is called with under Spec
LevelInputs == {RiskLevelLow, RiskLevelHigh, RiskLevelVeryHigh}

CanMitigate(id, actions) ==
    id \in DOMAIN rm.Risks => Len(rm.Risks[id].Mitigation) + Len(actions) <= MaxMitigation

Next ==
    \/ \E risk \in RiskInputs : IdentifyRisk(risk)
    \/ \E id \in RiskIDs, l \in LevelInputs, i \in LevelInputs : AssessRisk(id, l, i)
    \/ \E id \in RiskIDs, actions \in ActionInputs :
          CanMitigate(id, actions) /\ MitigateRisk(id, actions)
    \/ \E id \in RiskIDs, status \in RiskStatuses : MonitorRisk(id, status)

Spec == Init /\ [][Next]_vars

(***************************************************************************)
(* Specification of the assessment of one risk, over all 25 pairs of       *)
(* levels                                                                  *)
(***************************************************************************)
AssessInputs == {r \in RiskInputs : r.ID \in {"R1", ""}}

NextAssess ==
    \/ \E risk \in AssessInputs : IdentifyRisk(risk)
    \/ \E id \in RiskIDs, l \in RiskLevels, i \in RiskLevels : AssessRisk(id, l, i)
    \/ \E actions \in ActionInputs :
          CanMitigate("R1", actions) /\ MitigateRisk("R1", actions)
    \/ \E status \in RiskStatuses : MonitorRisk("R1", status)

SpecAssess == Init /\ [][NextAssess]_vars

(***************************************************************************)
(* Specification of a register of more than ten risks: the risks are       *)
(* identified one after the other with likelihood and impact filled in     *)
(***************************************************************************)
TopPairs ==
    <<<<RiskLevelVeryHigh, RiskLevelVeryHigh>>, <<RiskLevelVeryHigh, RiskLevelHigh>>,
      <<RiskLevelHigh, RiskLevelHigh>>, <<RiskLevelVeryHigh, RiskLevelMedium>>,
      <<RiskLevelHigh, RiskLevelMedium>>, <<RiskLevelMedium, RiskLevelMedium>>,
      <<RiskLevelHigh, RiskLevelLow>>, <<RiskLevelMedium, RiskLevelLow>>,
      <<RiskLevelLow, RiskLevelVeryLow>>, <<RiskLevelHigh, RiskLevelVeryHigh>>,
      <<RiskLevelMedium, RiskLevelVeryHigh>>, <<RiskLevelMedium, RiskLevelHigh>>,
      <<RiskLevelLow, RiskLevelHigh>>>>

TopID(i) == "T" \o ToString(i)

TopRisk(i) ==
    LET pair == TopPairs[((i - 1) % Len(TopPairs)) + 1]
    IN  Risk(TopID(i), "risk", pair[1], pair[2], "")

NumRisks == Cardinality(DOMAIN rm.Risks)

NextTopTen ==
    \/ \E i \in 1..MaxTopRisks : i = NumRisks + 1 /\ IdentifyRisk(TopRisk(i))
    \/ \E l \in {RiskLevelLow, RiskLevelVeryHigh} : AssessRisk(TopID(1), l, l)
    \/ MitigateRisk(TopID(1), <<>>)
    \/ \E status \in RiskStatuses : MonitorRisk(TopID(1), status)

SpecTopTen == Init /\ [][NextTopTen]_vars

(***************************************************************************)
(* Specification of the quality objectives manager                         *)
(***************************************************************************)
MaxReports == 3

ObjectiveIDs == {"OBJ1", "OBJ2"}

Objective(id, name, measurable, targets, responsible) ==
    [ID |-> id, Name |-> name, Measurable |-> measurable, Targets |-> targets,
     Responsible |-> responsible, Timeline |-> [TargetDate |-> 1], Status |-> ""]

ObjectiveInputs ==
    {Objective(id, "objective", TRUE, <<"target">>, "manager") : id \in ObjectiveIDs}
    \cup {Objective("", "objective", TRUE, <<"target">>, "manager"),
          Objective("OBJ1", "", TRUE, <<"target">>, "manager"),
          Objective("OBJ1", "objective", FALSE, <<"target">>, "manager"),
          Objective("OBJ1", "objective", TRUE, <<>>, "manager"),
          Objective("OBJ1", "objective", TRUE, <<"target">>, "")}

\* progress percentages reported by the caller (float64 in the code; these
\* values and the thresholds 0 and 100 are exact)
ProgressValues == {0, 45, 100, 150}

ProgressInputs ==
    {[ObjectiveID |-> "", Date |-> 1, Progress |-> p, Status |-> "on_track",
      Comments |-> "c"] : p \in ProgressValues}

NextObjectives ==
    \/ \E objective \in ObjectiveInputs : CreateObjective(objective)
    \/ \E id \in ObjectiveIDs, progress \in ProgressInputs :
          /\ Len(qom.Tracker.ProgressReports) < MaxReports
          /\ UpdateObjectiveProgress(id, progress)

SpecObjectives == Init /\ [][NextObjectives]_vars

(***************************************************************************)
(* Specification of the three managers, failing calls included             *)
(*                                                                         *)
(* The managers are separate objects that share no field; a behaviour      *)
(* drives one of them and leaves the other two as constructed.             *)
(***************************************************************************)
MaxFindings == 2

\* an ID that is never handed to IdentifyRisk, IdentifyOpportunity,
\* CreateObjective or CreateAudit
UnknownID == "NONE"

ManagerRiskInputs ==
    {Risk(id, d, "", "", "") : id \in {"R1", ""}, d \in {"risk", ""}}

OpportunityInputs ==
    {[ID |-> id, Description |-> d, Actions |-> <<>>, Status |-> ""] :
        id \in {"O1", ""}, d \in {"opportunity", ""}}

ManagerObjectiveInputs == {o \in ObjectiveInputs : o.ID \in {"OBJ1", ""}}

Audit(id, title, scopeDescription) ==
    [ID |-> id, Title |-> title, Scope |-> [Description |-> scopeDescription],
     Status |-> "", ActualStartDate |-> NilTime, ActualEndDate |-> NilTime,
     Findings |-> <<>>, Report |-> Nil]

AuditInputs ==
    {Audit(id, t, d) : id \in {"AUD1", ""}, t \in {"audit", ""}, d \in {"scope", ""}}

DateInputs == {1, 2}

FindingInputs == {[ID |-> "F1", Type |-> "minor_nonconformity"]}

AuditReportInputs == {Nil, [Summary |-> "summary"]}

RiskSession == qom = NewQualityObjectivesManager /\ am = NewAuditManager

ObjectiveSession == rm = NewRiskManager /\ am = NewAuditManager

AuditSession == rm = NewRiskManager /\ qom = NewQualityObjectivesManager

CanAddFinding(id) ==
    id \in DOMAIN am.Audits => Len(am.Audits[id].Findings) < MaxFindings

NextManagers ==
    \/ RiskSession /\ \E risk \in ManagerRiskInputs : IdentifyRisk(risk)
    \/ RiskSession /\ \E id \in {"R1", UnknownID}, l \in LevelInputs, i \in LevelInputs :
            AssessRisk(id, l, i)
    \/ RiskSession /\ \E id \in {"R1", UnknownID}, actions \in ActionInputs :
            CanMitigate(id, actions) /\ MitigateRisk(id, actions)
    \/ RiskSession /\ \E id \in {"R1", UnknownID}, status \in RiskStatuses :
            MonitorRisk(id, status)
    \/ RiskSession /\ \E opportunity \in OpportunityInputs :
            IdentifyOpportunity(opportunity)
    \/ RiskSession /\ \E id \in {"O1", UnknownID}, actions \in ActionInputs :
            RealizeOpportunity(id, actions)
    \/ ObjectiveSession /\ \E objective \in ManagerObjectiveInputs :
            CreateObjective(objective)
    \/ ObjectiveSession /\ \E id \in {"OBJ1", UnknownID}, progress \in ProgressInputs :
            /\ Len(qom.Tracker.ProgressReports) < MaxReports
            /\ UpdateObjectiveProgress(id, progress)
    \/ AuditSession /\ \E audit \in AuditInputs : CreateAudit(audit)
    \/ AuditSession /\ \E id \in {"AUD1", UnknownID}, date \in DateInputs :
            StartAudit(id, date)
    \/ AuditSession /\ \E id \in {"AUD1", UnknownID}, finding \in FindingInputs :
            CanAddFinding(id) /\ AddFinding(id, finding)
    \/ AuditSession /\ \E id \in {"AUD1", UnknownID}, date \in DateInputs,
                           auditReport \in AuditReportInputs :
            CompleteAudit(id, date, auditReport)
    \/ AuditSession /\ \E status \in {AuditStatusReported, AuditStatusClosed} :
            SetAuditStatus("AUD1", status)

SpecManagers == Init /\ [][NextManagers]_vars

(***************************************************************************)
(* Specification of validation and scoring: the Organization snapshot is   *)
(* drawn from a bounded set and validated once                             *)
(***************************************************************************)
MaxParties == 3

MaxProcesses == 2

MaxOpportunities == 1

SeqsUpTo(S, n) == UNION {[1..k -> S] : k \in 0..n}

Issue(description, type) == [Description |-> description, Type |-> type]

InterestedParty(name, type, requirements) ==
    [Name |-> name, Type |-> type, Requirements |-> requirements]

OrganizationalContext(external, internal, parties) ==
    [ExternalIssues |-> external, InternalIssues |-> internal,
     InterestedParties |-> parties]

QualityPolicy(statement, communicated) ==
    [Statement |-> statement, Objectives |-> "framework", Commitment |-> "commitment",
     Improvement |-> "improvement", Communicated |-> communicated, Available |-> TRUE]

OrganizationalRole(name, assignedTo) ==
    [Name |-> name, Responsibilities |-> <<"r">>, Authorities |-> <<"a">>,
     AssignedTo |-> assignedTo]

Leadership(topManagement, policy, roles, commitment) ==
    [TopManagement |-> topManagement, QualityPolicy |-> policy, Roles |-> roles,
     Commitment |-> commitment]

QMSScope(description, products, exclusions) ==
    [Description |-> description, Products |-> products, Services |-> <<>>,
     Exclusions |-> exclusions]

Process(name, inputs, criteria, risks, opportunities) ==
    [Name |-> name, Inputs |-> inputs, Outputs |-> <<"out">>,
     Responsibilities |-> <<"owner">>, Criteria |-> criteria, Risks |-> risks,
     Opportunities |-> opportunities]

QualityObjective(name, measurable, targetDate) ==
    [Name |-> name, Measurable |-> measurable, Targets |-> <<"target">>,
     Responsible |-> "manager", Timeline |-> [TargetDate |-> targetDate]]

QMSRisk(mitigation, status) == [Mitigation |-> mitigation, Status |-> status]

Opportunity(actions, status) == [Actions |-> actions, Status |-> status]

QualityManagementSystem(scope, processes, objectives, risks, opportunities) ==
    [Scope |-> scope, Processes |-> processes, Objectives |-> objectives,
     Risks |-> risks, Opportunities |-> opportunities]

Organization(context, leadership, qms) ==
    [ID |-> "ORG", Name |-> "org", Context |-> context, Leadership |-> leadership,
     QMS |-> qms]

ScoreContexts ==
    {Nil} \cup
    {OrganizationalContext(<<Issue("market", "external")>>,
                           <<Issue("culture", "internal")>>, parties) :
        parties \in SeqsUpTo({InterestedParty("customer", "customer", <<"q">>),
                              InterestedParty("supplier", "supplier", <<"q">>),
                              InterestedParty("agency", "regulator", <<"q">>)},
                             MaxParties)}

ScoreLeaderships ==
    {Nil,
     Leadership(<<"ceo">>, QualityPolicy("policy", TRUE),
                <<OrganizationalRole("qm", "ceo")>>, requiredCommitments),
     Leadership(<<"ceo">>, QualityPolicy("policy", TRUE),
                <<OrganizationalRole("qm", "ceo")>>, Tail(requiredCommitments))}

ScoreQMSs ==
    {Nil} \cup
    {QualityManagementSystem(QMSScope("scope", <<"product">>, <<>>), processes,
                             <<QualityObjective("objective", TRUE, 1)>>, risks,
                             opportunities) :
        processes \in SeqsUpTo({Process("p", <<"in">>, <<"c">>, <<"risk">>, <<"opp">>),
                                Process("q", <<"in">>, <<"c">>, <<>>, <<>>)},
                               MaxProcesses),
        risks \in {<<>>, <<QMSRisk(<<>>, RiskStatusIdentified)>>,
                   <<QMSRisk(<<"a">>, RiskStatusMitigated)>>},
        opportunities \in SeqsUpTo({Opportunity(<<>>, "identified"),
                                    Opportunity(<<"a">>, "planned")},
                                   MaxOpportunities)}

ScoreOrganizations ==
    {Organization(c, l, q) : c \in ScoreContexts, l \in ScoreLeaderships, q \in ScoreQMSs}

InitScore ==
    /\ rm = NewRiskManager
    /\ qom = NewQualityObjectivesManager
    /\ am = NewAuditManager
    /\ org \in ScoreOrganizations
    /\ result = Nil
    /\ score = Nil
    /\ report = Nil
    /\ mcp = NewMCPServer
    /\ dm = NewDocumentationManager
    /\ calls = NoCalls
    /\ err = NoError

NextScore == Validate

SpecScore == InitScore /\ [][NextScore]_vars

(***************************************************************************)
(* Specification of the compliance report                                  *)
(*                                                                         *)
(* The caller validates a snapshot, has a report generated, amends the     *)
(* exclusions of the scope and validates again; the report it holds stays  *)
(* the one generated before the amendment.                                 *)
(***************************************************************************)
MaxErrors == 3

MaxWarnings == 2

MaxInfos == 4

\* the sequence of n copies of x
Repeat(x, n) == [k \in 1..n |-> x]

Exclusion(clause, justification) == [Clause |-> clause, Justification |-> justification]

\* an exclusion that names no clause: one error of clause 4.3
UnnamedExclusion == Exclusion("", "not applicable")

EmptyContext == OrganizationalContext(<<>>, <<>>, <<>>)

FullContext ==
    OrganizationalContext(<<Issue("market", "external")>>,
                          <<Issue("culture", "internal")>>,
                          <<InterestedParty("customer", "customer", <<"q">>),
                            InterestedParty("supplier", "supplier", <<"q">>),
                            InterestedParty("agency", "regulator", <<"q">>)>>)

FullLeadership ==
    Leadership(<<"ceo">>, QualityPolicy("policy", TRUE),
               <<OrganizationalRole("qm", "ceo")>>, requiredCommitments)

\* a QMS that is complete but for e exclusions that name no clause, w risks
\* without mitigation and i opportunities without actions
CountQMS(e, w, i) ==
    QualityManagementSystem(
        QMSScope("scope", <<"product">>, Repeat(UnnamedExclusion, e)),
        <<Process("p", <<"in">>, <<"c">>, <<"risk">>, <<"opp">>)>>,
        <<QualityObjective("objective", TRUE, 1)>>,
        Repeat(QMSRisk(<<>>, RiskStatusIdentified), w),
        Repeat(Opportunity(<<>>, "identified"), i))

ReportOrganizations ==
    {Organization(FullContext, FullLeadership, CountQMS(e, w, i)) :
        e \in 0..MaxErrors, w \in 0..MaxWarnings, i \in 0..MaxInfos}
    \cup {Organization(c, l, q) : c \in {Nil, EmptyContext, FullContext},
                                  l \in {Nil, FullLeadership},
                                  q \in {Nil, CountQMS(0, 0, 0)}}

\* the caller rewrites org.QMS.Scope.Exclusions and validates again
AmendExclusions(n) ==
    /\ org.QMS # Nil
    /\ result # Nil
    /\ Len(org.QMS.Scope.Exclusions) # n
    /\ org' = [org EXCEPT !.QMS.Scope.Exclusions = Repeat(UnnamedExclusion, n)]
    /\ result' = ValidateOrganization(org')
    /\ score' = GetComplianceScore(org')
    /\ UNCHANGED <<rm, qom, am, report, err, mcp, dm, calls>>

InitReport ==
    /\ rm = NewRiskManager
    /\ qom = NewQualityObjectivesManager
    /\ am = NewAuditManager
    /\ org \in ReportOrganizations
    /\ result = Nil
    /\ score = Nil
    /\ report = Nil
    /\ mcp = NewMCPServer
    /\ dm = NewDocumentationManager
    /\ calls = NoCalls
    /\ err = NoError

NextReport ==
    \/ Validate
    \/ GenerateReport
    \/ \E n \in 0..MaxErrors : AmendExclusions(n)

SpecReport == InitReport /\ [][NextReport]_vars

(***************************************************************************)
(* Specification of the leadership commitments                             *)
(*                                                                         *)
(* Leadership.Commitment is any selection of the declared commitments, as  *)
(* it is, with every tag listed twice, with a tag the SDK does not         *)
(* declare, or with both.                                                  *)
(***************************************************************************)
\* the LeadershipCommitment constants the SDK declares
LeadershipCommitments ==
    {"qms_effectiveness", "quality_policy", "qms_integration", "process_approach",
     "risk_based_thinking", "resources_available", "importance_qms",
     "conformity_requirements", "qms_results", "personnel_engagement",
     "improvement", "customer_focus"}

UnknownCommitment == "community_outreach"

CommitmentLists ==
    UNION {LET chosen == SelectSeq(requiredCommitments, LAMBDA c : c \in selection)
           IN  {chosen, chosen \o chosen, <<UnknownCommitment>> \o chosen,
                <<UnknownCommitment>> \o chosen \o chosen}
           : selection \in SUBSET LeadershipCommitments}

LeadershipOrganizations ==
    {Organization(Nil,
                  Leadership(<<"ceo">>, QualityPolicy("policy", TRUE),
                             <<OrganizationalRole("qm", "ceo")>>, commitment),
                  Nil) : commitment \in CommitmentLists}

InitLeadership ==
    /\ rm = NewRiskManager
    /\ qom = NewQualityObjectivesManager
    /\ am = NewAuditManager
    /\ org \in LeadershipOrganizations
    /\ result = Nil
    /\ score = Nil
    /\ report = Nil
    /\ mcp = NewMCPServer
    /\ dm = NewDocumentationManager
    /\ calls = NoCalls
    /\ err = NoError

NextLeadership == Validate

SpecLeadership == InitLeadership /\ [][NextLeadership]_vars

(***************************************************************************)
(* Specification of ValidateOrganization on slices that share memory       *)
(*                                                                         *)
(* Here Context.ExternalIssues and Context.InternalIssues are Go slice     *)
(* headers (offset, length, capacity) into one backing memory of Issues,   *)
(* as the caller may have cut both from one array; Graph gives the lists   *)
(* the headers denote.  validateContext ranges over                        *)
(* append(ExternalIssues, InternalIssues...), and append writes into the   *)
(* spare capacity of its first argument when the result fits.              *)
(***************************************************************************)
MaxCells == 4

Backing == [k \in 1..MaxCells |-> Issue("issue" \o ToString(k), "external")]

Slice(off, len, cap) == [Off |-> off, Len |-> len, Cap |-> cap]

\* the slice headers that fit the backing memory
Slices ==
    {sl \in {Slice(off, len, cap) : off \in 0..MaxCells, len \in 0..MaxCells,
                                   cap \in 0..MaxCells} :
        sl.Len <= sl.Cap /\ sl.Off + sl.Cap <= MaxCells}

\* the elements a slice header denotes
Elements(backing, slice) == SubSeq(backing, slice.Off + 1, slice.Off + slice.Len)

\* the backing memory after append(first, second...): written in place when
\* len(first) + len(second) <= cap(first), left alone when append allocates
appendInPlace(backing, first, second) ==
    IF first.Len + second.Len <= first.Cap
    THEN [k \in 1..Len(backing) |->
             IF k > first.Off + first.Len /\ k <= first.Off + first.Len + second.Len
             THEN backing[second.Off + (k - first.Off - first.Len)]
             ELSE backing[k]]
    ELSE backing

SliceOrganizations ==
    {Organization([Backing |-> Backing, ExternalIssues |-> external,
                   InternalIssues |-> internal, InterestedParties |-> <<>>],
                  Nil, Nil) : external \in Slices, internal \in Slices}

\* the Organization graph as the lists its slice headers denote
Graph(o) ==
    [o EXCEPT !.Context =
        OrganizationalContext(Elements(o.Context.Backing, o.Context.ExternalIssues),
                              Elements(o.Context.Backing, o.Context.InternalIssues),
                              o.Context.InterestedParties)]

\* one call of ValidateOrganization: the findings of the graph, and the
\* write of validateContext's append
ValidateOrganizationCall ==
    /\ result = Nil
    /\ result' = ValidateOrganization(Graph(org))
    /\ org' = [org EXCEPT !.Context.Backing =
                   appendInPlace(@, org.Context.ExternalIssues,
                                 org.Context.InternalIssues)]
    /\ UNCHANGED <<rm, qom, am, score, report, err, mcp, dm, calls>>

InitSlices ==
    /\ rm = NewRiskManager
    /\ qom = NewQualityObjectivesManager
    /\ am = NewAuditManager
    /\ org \in SliceOrganizations
    /\ result = Nil
    /\ score = Nil
    /\ report = Nil
    /\ mcp = NewMCPServer
    /\ dm = NewDocumentationManager
    /\ calls = NoCalls
    /\ err = NoError

NextSlices == ValidateOrganizationCall

SpecSlices == InitSlices /\ [][NextSlices]_vars

(***************************************************************************)
(* Specification of the clause checkers: snapshots that vary the types of  *)
(* the interested parties, the fields of the processes, the places risks   *)
(* and opportunities are recorded in, and the substructures that are nil   *)
(***************************************************************************)
PartyTypes ==
    {"customer", "supplier", "external_provider", "regulator", "authority",
     "Customer", "customers", ""}

PartyContexts ==
    {OrganizationalContext(<<Issue("market", "external")>>,
                           <<Issue("culture", "internal")>>, parties) :
        parties \in SeqsUpTo({InterestedParty("party", t, <<"q">>) : t \in PartyTypes},
                             MaxParties) \ {<<>>}}

\* a process with every field either set or left at its zero value
ClauseProcesses ==
    [Name : {"", "p"}, Inputs : {<<>>, <<"in">>}, Outputs : {<<>>, <<"out">>},
     Responsibilities : {<<>>, <<"owner">>}, Criteria : {<<>>, <<"c">>},
     Risks : {<<>>, <<"risk">>}, Opportunities : {<<"opp">>}]

\* the number of fields of a process that validateQMSProcesses looks at and
\* that are at their zero value
Deficiencies(process) ==
    Cardinality({f \in {"Name", "Inputs", "Outputs", "Responsibilities",
                        "Criteria", "Risks"} :
                    IF f = "Name" THEN process.Name = "" ELSE Len(process[f]) = 0})

\* the processes that lack no field, one field, all fields but one, or all
EdgeProcesses == {process \in ClauseProcesses : Deficiencies(process) \in {0, 1, 5, 6}}

\* complete processes that record 0..2 risks (the same risk twice) and 0..1
\* opportunities
RiskProcesses ==
    {Process("p", <<"in">>, <<"c">>, Repeat("risk", n), Repeat("opp", k)) :
        n \in 0..2, k \in 0..1}

ClauseQMS(processes, risks, opportunities) ==
    QualityManagementSystem(QMSScope("scope", <<"product">>, <<>>), processes,
                             <<QualityObjective("objective", TRUE, 1)>>, risks,
                             opportunities)

\* a leadership and a QMS that are present and draw findings of their own
PartLeadership ==
    Leadership(<<>>, QualityPolicy("", FALSE), <<OrganizationalRole("", "")>>,
               Tail(requiredCommitments))

PartQMS ==
    QualityManagementSystem(QMSScope("", <<>>, <<UnnamedExclusion>>),
                             <<Process("", <<>>, <<>>, <<>>, <<>>)>>,
                             <<QualityObjective("", FALSE, 0)>>,
                             <<QMSRisk(<<>>, RiskStatusIdentified)>>, <<>>)

ClauseOrganizations ==
    {Organization(c, l, q) : c \in PartyContexts, l \in {Nil, FullLeadership},
                             q \in {Nil, CountQMS(0, 0, 0)}}
    \cup {Organization(c, FullLeadership, ClauseQMS(processes, <<>>, <<>>)) :
             c \in {Nil, FullContext},
             processes \in {<<process>> : process \in ClauseProcesses}
                              \cup SeqsUpTo(EdgeProcesses, MaxProcesses)}
    \cup {Organization(FullContext, FullLeadership,
                       ClauseQMS(processes, risks, opportunities)) :
             processes \in SeqsUpTo(RiskProcesses, MaxProcesses),
             risks \in SeqsUpTo({QMSRisk(<<>>, RiskStatusIdentified),
                                 QMSRisk(<<"a">>, RiskStatusMitigated)}, 2),
             opportunities \in SeqsUpTo({Opportunity(<<>>, "identified")},
                                        MaxOpportunities)}
    \cup {Organization(c, l, q) : c \in {Nil, EmptyContext, FullContext},
                                  l \in {Nil, PartLeadership, FullLeadership},
                                  q \in {Nil, PartQMS, CountQMS(0, 0, 0)}}

InitClauses ==
    /\ rm = NewRiskManager
    /\ qom = NewQualityObjectivesManager
    /\ am = NewAuditManager
    /\ org \in ClauseOrganizations
    /\ result = Nil
    /\ score = Nil
    /\ report = Nil
    /\ mcp = NewMCPServer
    /\ dm = NewDocumentationManager
    /\ calls = NoCalls
    /\ err = NoError

NextClauses == Validate

SpecClauses == InitClauses /\ [][NextClauses]_vars

(***************************************************************************)
(* Specification of the documentation manager: documents are added,        *)
(* updated, approved, reviewed and archived, calls on unknown IDs          *)
(* included, until MaxDocumentCalls calls have written the index           *)
(***************************************************************************)
MaxDocumentCalls == 3

DocumentIDs == {"D1", "D2"}

Document(id, title, type, approval, status) ==
    [ID |-> id, Title |-> title, Type |-> type, Category |-> "quality",
     Metadata |-> [Author |-> "author", Keywords |-> <<"audit">>,
                   RelatedClauses |-> <<"7.5">>],
     Approval |-> approval, Review |-> Nil, Status |-> status, Versions |-> <<>>]

RequiredApproval ==
    [RequiredApprovers |-> <<"qm">>, ActualApprovers |-> <<>>, Status |-> ""]

DocumentInputs ==
    {Document(id, "title", type, approval, "") :
        id \in DocumentIDs, type \in {"procedure", "record"},
        approval \in {Nil, RequiredApproval}}
    \cup {Document("", "title", "procedure", Nil, ""),
          Document("D1", "", "procedure", Nil, "")}

UpdateInputs ==
    {Document("", "title", type, Nil, status) :
        type \in {"procedure", "record"},
        status \in {DocumentStatusDraft, DocumentStatusReview}}

ApproverInputs == {[ApproverID |-> a] : a \in {"qm", "auditor"}}

ReviewInputs == {[ReviewerID |-> "qm", Status |-> "completed"]}

\* every successful call appends one ID to a list of ByType
IndexedCalls ==
    LET byType == dm.Index.ByType
        RECURSIVE total(_)
        total(keys) == IF keys = {} THEN 0
                       ELSE LET k == CHOOSE x \in keys : TRUE
                            IN  Len(byType[k]) + total(keys \ {k})
    IN  total(DOMAIN byType)

CanIndex == IndexedCalls < MaxDocumentCalls

NextDocuments ==
    \/ \E doc \in DocumentInputs : CanIndex /\ AddDocument(doc)
    \/ \E docID \in DocumentIDs \cup {UnknownID}, updates \in UpdateInputs :
           CanIndex /\ UpdateDocument(docID, updates)
    \/ \E docID \in DocumentIDs \cup {UnknownID}, approver \in ApproverInputs :
           CanIndex /\ ApproveDocument(docID, approver)
    \/ \E docID \in DocumentIDs \cup {UnknownID}, review \in ReviewInputs :
           CanIndex /\ ReviewDocument(docID, review)
    \/ \E docID \in DocumentIDs \cup {UnknownID} :
           CanIndex /\ ArchiveDocument(docID, "obsolete")

SpecDocuments == Init /\ [][NextDocuments]_vars

(***************************************************************************)
(* Specification of two goroutines that call IdentifyRisk on a new         *)
(* manager, in every order of their statements, one after the other        *)
(* included                                                                *)
(***************************************************************************)
ConcurrentRisks ==
    {Risk(id, d, l, l, "") : id \in RiskIDs, d \in {"risk", ""},
                             l \in {"", RiskLevelVeryHigh}}

InitConcurrent ==
    /\ rm = NewRiskManager
    /\ qom = NewQualityObjectivesManager
    /\ am = NewAuditManager
    /\ org = Nil
    /\ result = Nil
    /\ score = Nil
    /\ report = Nil
    /\ mcp = NewMCPServer
    /\ dm = NewDocumentationManager
    /\ err = NoError
    /\ \E first \in ConcurrentRisks, second \in ConcurrentRisks :
           calls = [Of |-> [g \in Goroutines |->
                               [risk |-> IF g = 1 THEN first ELSE second,
                                pc |-> "start", entries |-> {}, orgRisks |-> <<>>]],
                    Interleaved |-> FALSE, Fatal |-> FALSE]

NextConcurrent ==
    \/ \E g \in Goroutines : CheckRisk(g)
    \/ \E g \in Goroutines : BeginWrite(g)
    \/ \E g \in Goroutines : EndWrite(g)
    \/ \E g \in Goroutines : BuildEntries(g)
    \/ \E g \in Goroutines : SortEntries(g)
    \/ \E g \in Goroutines : AssignRegister(g)

SpecConcurrent == InitConcurrent /\ [][NextConcurrent]_vars

(***************************************************************************)
(* Specification of the MCP risk tools: one client calls qms_identify_risk *)
(* and qms_mitigate_risk in any order, with arguments present or missing   *)
(***************************************************************************)
MaxClock == 4

DescriptionInputs == {"", "supplier delay", "tool wear"}

ActionsJSONInputs == {"[]", "[{\"id\":\"A1\"}]", "{"}

IdentifyArguments == {<<>>} \cup {[description |-> d] : d \in DescriptionInputs}

MitigateArguments(ids) ==
    {[risk_id |-> id, actions_json |-> text] : id \in ids, text \in ActionsJSONInputs}
    \cup {[risk_id |-> id] : id \in ids}
    \cup {[actions_json |-> text] : text \in ActionsJSONInputs}

NextMCP ==
    \/ \E args \in IdentifyArguments, now \in 1..MaxClock : handleIdentifyRisk(args, now)
    \/ \E args \in MitigateArguments(mcp.Issued \cup {UnknownID}) : handleMitigateRisk(args)

SpecMCP == Init /\ [][NextMCP]_vars

(***************************************************************************)
(* Properties                                                              *)
(***************************************************************************)
Validated == result # Nil

NumErrors == Len(result.Errors)

NumWarnings == Len(result.Warnings)

NumInfos == Len(result.Infos)

NumFindings == NumErrors + NumWarnings + NumInfos

\* C1: GetComplianceScore returns 100 if and only if ValidateOrganization
\* produces no finding at all (no error, no warning, no info).
C1_ScoreHundredIffNoFindings ==
    Validated => ((score.num = 100 * score.den) <=> (NumFindings = 0))

\* the levels as the claims order them, with the claimed weights
ClaimWeight(level) ==
    CASE level = "very_low" -> 1
      [] level = "low" -> 1
      [] level = "medium" -> 2
      [] level = "high" -> 3
      [] level = "very_high" -> 4

ClaimTier(s) ==
    CASE s = 16 -> "critical"
      [] s \in {9, 12} -> "high"
      [] s \in {4, 6, 8} -> "medium"
      [] s \in {1, 2, 3} -> "low"

\* C2: GetCriticalRisks returns exactly the stored risks whose impact is
\* very_high and whose likelihood is high or very_high.
C2_CriticalRisksExact ==
    GetCriticalRisks =
        {id \in DOMAIN rm.Risks :
            /\ rm.Risks[id].Impact = "very_high"
            /\ rm.Risks[id].Likelihood \in {"high", "very_high"}}

\* C3: once an objective is achieved, no successful UpdateObjectiveProgress
\* on it, whatever the progress value, sets it back to in_progress or planned.
C3_NeverRegressesFromAchieved ==
    [][\A id \in ObjectiveIDs, progress \in ProgressInputs :
          (/\ id \in DOMAIN qom.Objectives
           /\ qom.Objectives[id].Status = "achieved"
           /\ UpdateObjectiveProgress(id, progress))
          => qom'.Objectives[id].Status \notin {"in_progress", "planned"}]_vars

\* C4: a successful UpdateObjectiveProgress(id, p) on an objective that is
\* not achieved leaves it planned when p = 0, in_progress when 0 < p < 100
\* and achieved when p >= 100, whatever its status was before.
C4_StatusFromProgressAlone ==
    [][\A id \in ObjectiveIDs, progress \in ProgressInputs :
          (/\ id \in DOMAIN qom.Objectives
           /\ qom.Objectives[id].Status # "achieved"
           /\ progress.Progress >= 0
           /\ UpdateObjectiveProgress(id, progress))
          => qom'.Objectives[id].Status =
                 IF progress.Progress = 0 THEN "planned"
                 ELSE IF progress.Progress < 100 THEN "in_progress"
                 ELSE "achieved"]_vars

\* round(0.5 * n), half rounded up
RoundHalfUp(n) == (n + 1) \div 2

\* C5: with at least one finding the score is 100 * (1 - penalty / (3 * total))
\* where penalty = 3*E + W + round(0.5*I), the info term rounded half up.
C5_ScoreFormulaRoundsInfos ==
    (Validated /\ NumFindings > 0) =>
        LET penalty == 3 * NumErrors + NumWarnings + RoundHalfUp(NumInfos)
            max == 3 * NumFindings
        IN  score.num * max = 100 * (max - penalty) * score.den

\* C6: recomputing the register over an unchanged set of risks yields the
\* same ordered OrganizationRisks and CriticalRisks, ties included.
C6_RecomputeIsIdempotent ==
    [][rm'.Risks = rm.Risks =>
          /\ rm'.Register.OrganizationRisks = rm.Register.OrganizationRisks
          /\ rm'.Register.CriticalRisks = rm.Register.CriticalRisks]_vars

OrganizationRisks == rm.Register.OrganizationRisks

CriticalRisks == rm.Register.CriticalRisks

\* C7: in the initial state and after every operation the register holds
\* exactly one entry per risk of Risks and no other, each with the risk's
\* current likelihood, impact, status and priority and with
\* score = weight(likelihood) * weight(impact).
C7_RegisterMirrorsRisks ==
    /\ Len(OrganizationRisks) = Cardinality(DOMAIN rm.Risks)
    /\ {OrganizationRisks[i].RiskID : i \in 1..Len(OrganizationRisks)} = DOMAIN rm.Risks
    /\ \A i \in 1..Len(OrganizationRisks) :
          LET e == OrganizationRisks[i]
              r == rm.Risks[e.RiskID]
          IN  /\ e.Probability = r.Likelihood
              /\ e.Impact = r.Impact
              /\ e.Status = r.Status
              /\ e.Priority = r.Priority
              /\ (r.Likelihood \in RiskLevels /\ r.Impact \in RiskLevels)
                    => e.RiskScore = ClaimWeight(r.Likelihood) * ClaimWeight(r.Impact)

\* two risks in the register, one mitigated after its assessment, one monitored
C7_Witness ==
    /\ DOMAIN rm.Risks = {"R1", "R2"}
    /\ rm.Risks["R1"].Status = "mitigated"
    /\ rm.Risks["R1"].Likelihood = "high"
    /\ Len(rm.Risks["R1"].Mitigation) = 1
    /\ rm.Risks["R2"].Status = "monitored"
    /\ OrganizationRisks[1].RiskID = "R1"

Min(a, b) == IF a < b THEN a ELSE b

\* C8: CriticalRisks has length min(10, number of risks), is the prefix of
\* OrganizationRisks, and OrganizationRisks is sorted by score, highest first.
C8_TopTenIsSortedPrefix ==
    /\ Len(CriticalRisks) = Min(10, Cardinality(DOMAIN rm.Risks))
    /\ CriticalRisks = SubSeq(OrganizationRisks, 1, Len(CriticalRisks))
    /\ \A i \in 1..Len(OrganizationRisks) - 1 :
          OrganizationRisks[i].RiskScore >= OrganizationRisks[i + 1].RiskScore

\* eleven risks: the lowest-ranked one is cut off, and the top ten hold
\* entries whose priority is not critical
C8_Witness ==
    /\ Len(OrganizationRisks) = 11
    /\ Len(CriticalRisks) = 10
    /\ OrganizationRisks[11].RiskScore < OrganizationRisks[10].RiskScore
    /\ \E i \in 1..10 : CriticalRisks[i].Priority # "critical"

\* C9: for each of the 25 pairs of levels AssessRisk sets the priority to
\* the tier of weight(likelihood) * weight(impact) (16 critical; 9, 12 high;
\* 4, 6, 8 medium; 1, 2, 3 low) and the status to assessed.
C9_AssessSetsTierOfScore ==
    [][\A id \in RiskIDs, l \in RiskLevels, i \in RiskLevels :
          (id \in DOMAIN rm.Risks /\ AssessRisk(id, l, i))
          => /\ rm'.Risks[id].Priority = ClaimTier(ClaimWeight(l) * ClaimWeight(i))
             /\ rm'.Risks[id].Status = "assessed"]_vars

\* a risk assessed (high, very_high): score 12, priority high
C9_Witness ==
    /\ "R1" \in DOMAIN rm.Risks
    /\ rm.Risks["R1"].Status = "assessed"
    /\ rm.Risks["R1"].Likelihood = "high"
    /\ rm.Risks["R1"].Impact = "very_high"
    /\ rm.Risks["R1"].Priority = "high"

\* C10: the score of a pair of levels is weight(likelihood) * weight(impact)
\* with weights 1, 1, 2, 3, 4; it lies in {1,2,3,4,6,8,9,12,16}; very_low and
\* low score alike on either axis.
C10_ScoreIsProductOfWeights ==
    /\ \A i \in 1..Len(OrganizationRisks) :
          LET e == OrganizationRisks[i]
          IN  (e.Probability \in RiskLevels /\ e.Impact \in RiskLevels)
              => /\ e.RiskScore = ClaimWeight(e.Probability) * ClaimWeight(e.Impact)
                 /\ e.RiskScore \in {1, 2, 3, 4, 6, 8, 9, 12, 16}
    /\ \A x \in RiskLevels :
          /\ RiskEntry("R1", Risk("R1", "risk", "very_low", x, "")).RiskScore
                = RiskEntry("R1", Risk("R1", "risk", "low", x, "")).RiskScore
          /\ RiskEntry("R1", Risk("R1", "risk", x, "very_low", "")).RiskScore
                = RiskEntry("R1", Risk("R1", "risk", x, "low", "")).RiskScore

\* a register entry for the pair (very_low, very_high), of score 4
C10_Witness ==
    \E i \in 1..Len(OrganizationRisks) :
        /\ OrganizationRisks[i].Probability = "very_low"
        /\ OrganizationRisks[i].Impact = "very_high"
        /\ OrganizationRisks[i].RiskScore = 4

\* a step is a call of a manager operation whose precondition is unmet: a
\* required field of the argument is missing, or the ID is not in the map
UnmetPrecondition ==
    \/ \E risk \in ManagerRiskInputs :
            (risk.ID = "" \/ risk.Description = "") /\ IdentifyRisk(risk)
    \/ \E opportunity \in OpportunityInputs :
            /\ opportunity.ID = "" \/ opportunity.Description = ""
            /\ IdentifyOpportunity(opportunity)
    \/ \E objective \in ManagerObjectiveInputs :
            /\ \/ objective.ID = ""
               \/ objective.Name = ""
               \/ ~objective.Measurable
               \/ objective.Targets = <<>>
               \/ objective.Responsible = ""
            /\ CreateObjective(objective)
    \/ \E audit \in AuditInputs :
            /\ audit.ID = "" \/ audit.Title = "" \/ audit.Scope.Description = ""
            /\ CreateAudit(audit)
    \/ \E id \in {"R1", UnknownID} :
            /\ id \notin DOMAIN rm.Risks
            /\ \/ \E l \in LevelInputs, i \in LevelInputs : AssessRisk(id, l, i)
               \/ \E actions \in ActionInputs : MitigateRisk(id, actions)
               \/ \E status \in RiskStatuses : MonitorRisk(id, status)
    \/ \E id \in {"O1", UnknownID}, actions \in ActionInputs :
            id \notin DOMAIN rm.Opportunities /\ RealizeOpportunity(id, actions)
    \/ \E id \in {"OBJ1", UnknownID}, progress \in ProgressInputs :
            id \notin DOMAIN qom.Objectives /\ UpdateObjectiveProgress(id, progress)
    \/ \E id \in {"AUD1", UnknownID} :
            /\ id \notin DOMAIN am.Audits
            /\ \/ \E date \in DateInputs : StartAudit(id, date)
               \/ \E finding \in FindingInputs : AddFinding(id, finding)
               \/ \E date \in DateInputs, auditReport \in AuditReportInputs :
                      CompleteAudit(id, date, auditReport)

\* C11: a manager operation whose precondition is unmet returns an error
\* and leaves the manager's maps, the stored records, the register and the
\* tracker lists as they were.
C11_FailedCallChangesNothing ==
    [][UnmetPrecondition => (err' # NoError /\ rm' = rm /\ qom' = qom /\ am' = am)]_vars

\* a call with an unknown ID has failed on a manager that holds records
C11_Witness ==
    \/ err = "risk not found" /\ "R1" \in DOMAIN rm.Risks
    \/ err = "audit with ID NONE not found" /\ "AUD1" \in DOMAIN am.Audits

\* C12: StartAudit on a stored audit succeeds exactly when its status is
\* planned, then sets in_progress and the actual start date; on any other
\* status it returns an error and leaves status and start date unchanged.
C12_StartOnlyFromPlanned ==
    [][\A id \in DOMAIN am.Audits, date \in DateInputs :
          StartAudit(id, date) =>
              IF am.Audits[id].Status = AuditStatusPlanned
              THEN /\ err' = NoError
                   /\ am'.Audits[id].Status = AuditStatusInProgress
                   /\ am'.Audits[id].ActualStartDate = date
              ELSE /\ err' # NoError
                   /\ am'.Audits[id].Status = am.Audits[id].Status
                   /\ am'.Audits[id].ActualStartDate = am.Audits[id].ActualStartDate]_vars

\* StartAudit was refused on an audit that is past planned and keeps the
\* start date of its first start
C12_Witness ==
    /\ err = "audit is not in planned status"
    /\ "AUD1" \in DOMAIN am.Audits
    /\ am.Audits["AUD1"].Status \in {AuditStatusCompleted, AuditStatusClosed}
    /\ am.Audits["AUD1"].ActualStartDate = 1

\* two scores kept as fractions are the same number
FractionEQ(a, b) == a.num * b.den = b.num * a.den

\* C13: with the numbers of warnings and infos fixed, the score does not
\* rise when the number of errors rises.
C13_ScoreFallsWithErrors ==
    [][(/\ Validated
        /\ Validated'
        /\ NumWarnings' = NumWarnings
        /\ NumInfos' = NumInfos
        /\ NumErrors' >= NumErrors) => FractionLE(score', score)]_vars

\* the snapshot was validated again with more errors than the report of the
\* earlier validation lists, the same warnings, and a score below that
\* report's
C13_Witness ==
    /\ Validated
    /\ report # Nil
    /\ NumErrors > Len(report.CriticalGaps)
    /\ NumWarnings = Len(report.ImprovementAreas)
    /\ ~FractionLE(report.ComplianceScore, score)

ScoreInRange(s) == FractionGE(s, 0) /\ FractionLE(s, Fraction(100, 1))

\* C14: every score lies in [0, 100], whichever of Context, Leadership and
\* QMS are present, and the report generated for a snapshot carries the
\* score GetComplianceScore returns for it.
C14_ScoreInRangeAndReported ==
    /\ [](/\ Validated => ScoreInRange(score)
          /\ report # Nil => ScoreInRange(report.ComplianceScore))
    /\ [][(GenerateReport /\ Validated) =>
              FractionEQ(report'.ComplianceScore, score)]_vars

\* a snapshot without Leadership and QMS was scored strictly between 0 and
\* 100 and the report carries that score
C14_Witness ==
    /\ Validated
    /\ report # Nil
    /\ org.Context # Nil /\ org.Leadership = Nil /\ org.QMS = Nil
    /\ ~FractionGE(score, 100) /\ ~FractionLE(score, Fraction(0, 1))
    /\ FractionEQ(report.ComplianceScore, score)

\* C15: the result is invalid exactly when it holds an error, whatever
\* warnings and infos it holds, and ValidateQMSCompliance returns an error
\* exactly then.
C15_InvalidIffErrors ==
    Validated =>
        /\ ~result.Valid <=> NumErrors > 0
        /\ ValidateQMSCompliance(org) # NoError <=> NumErrors > 0

\* a result that holds warnings and a single error
C15_Witness ==
    /\ Validated
    /\ NumErrors = 1
    /\ NumWarnings > 0
    /\ ~result.Valid
    /\ ValidateQMSCompliance(org) # NoError

\* C17: an Organization with an empty, non-nil Context, no Leadership and
\* no QMS yields at least five errors and a score below 50.
C17_EmptyOrganizationFails ==
    (/\ Validated
     /\ org.Context = EmptyContext
     /\ org.Leadership = Nil
     /\ org.QMS = Nil) => (NumErrors >= 5 /\ ~FractionGE(score, 50))

\* the empty organization was validated
C17_Witness ==
    /\ Validated
    /\ org.Context = EmptyContext /\ org.Leadership = Nil /\ org.QMS = Nil
    /\ NumErrors >= 5
    /\ score # Nil

\* C18: the label of a report follows from its score alone, by the bands
\* [90, 100], [80, 90), [70, 80), [60, 70) and below 60, and is never empty.
C18_LabelFollowsScore ==
    report # Nil =>
        LET s == report.ComplianceScore
            label == report.OverallCompliance
        IN  /\ label = "Excellent" <=> FractionGE(s, 90)
            /\ label = "Good" <=> (FractionGE(s, 80) /\ ~FractionGE(s, 90))
            /\ label = "Satisfactory" <=> (FractionGE(s, 70) /\ ~FractionGE(s, 80))
            /\ label = "Needs Improvement" <=> (FractionGE(s, 60) /\ ~FractionGE(s, 70))
            /\ label = "Critical Gaps" <=> ~FractionGE(s, 60)
            /\ label # ""

\* a report whose score is 80 itself
C18_Witness ==
    /\ report # Nil
    /\ FractionEQ(report.ComplianceScore, Fraction(80, 1))
    /\ report.OverallCompliance = "Good"

\* C19: with no error and at least one warning or info the score is at
\* least 100 * 2/3, and a report without critical gaps is never labelled
\* "Critical Gaps".
C19_NoErrorsNeverCritical ==
    /\ (Validated /\ NumErrors = 0 /\ NumWarnings + NumInfos >= 1) =>
           FractionLE(Fraction(200, 3), score)
    /\ (report # Nil /\ Len(report.CriticalGaps) = 0) =>
           report.OverallCompliance # "Critical Gaps"

\* warnings only: the score is 100 * 2/3 itself and the report says so
C19_Witness ==
    /\ Validated
    /\ NumErrors = 0 /\ NumWarnings >= 1 /\ NumInfos = 0
    /\ FractionEQ(score, Fraction(200, 3))
    /\ report # Nil
    /\ Len(report.CriticalGaps) = 0
    /\ Len(report.ImprovementAreas) = NumWarnings
    /\ report.OverallCompliance = "Needs Improvement"

\* the findings of the result that concern a leadership commitment
CommitmentErrors ==
    SelectSeq(result.Errors \o result.Warnings \o result.Infos,
              LAMBDA e : e.Field = "leadership_commitment")

\* C16: with Leadership present, each declared commitment that is absent
\* from Leadership.Commitment has exactly one error of clause 5.1 naming it,
\* each present one has none, and there is no other commitment finding,
\* whatever duplicates and undeclared tags the list holds.
C16_OneErrorPerMissingCommitment ==
    (Validated /\ org.Leadership # Nil) =>
        LET listed == {org.Leadership.Commitment[i] :
                          i \in 1..Len(org.Leadership.Commitment)}
            naming(tag) == {i \in 1..Len(CommitmentErrors) :
                               CommitmentErrors[i].Message =
                                   "Missing leadership commitment: " \o tag}
        IN  /\ \A i \in 1..Len(CommitmentErrors) :
                   /\ CommitmentErrors[i].Clause = "5.1"
                   /\ CommitmentErrors[i].Severity = "error"
            /\ \A tag \in LeadershipCommitments :
                   Cardinality(naming(tag)) = IF tag \in listed THEN 0 ELSE 1
            /\ Len(CommitmentErrors) = Cardinality(LeadershipCommitments \ listed)

\* a list with a duplicate and an undeclared tag that misses two declared
\* commitments was validated
C16_Witness ==
    /\ Validated
    /\ org.Leadership # Nil
    /\ Len(org.Leadership.Commitment) = 2 * Cardinality(LeadershipCommitments) - 3
    /\ org.Leadership.Commitment[1] = UnknownCommitment
    /\ org.Leadership.Commitment[2] = org.Leadership.Commitment[12]
    /\ Len(CommitmentErrors) = 2

\* C20: ValidateOrganization leaves every list of the Organization graph
\* as it was before the call.
C20_InputUnchanged ==
    [][ValidateOrganizationCall => Graph(org') = Graph(org)]_vars

\* C21: on a stored audit AddFinding and CompleteAudit succeed in every
\* status: AddFinding appends exactly the one finding, CompleteAudit sets
\* the status completed with the end date and the report, started or not.
C21_FindingAndCompletionUnguarded ==
    [][\A id \in DOMAIN am.Audits :
          /\ \A finding \in FindingInputs :
                 AddFinding(id, finding) =>
                     /\ err' = NoError
                     /\ am'.Audits[id].Findings = Append(am.Audits[id].Findings, finding)
                     /\ am'.Audits[id].Status = am.Audits[id].Status
          /\ \A date \in DateInputs, auditReport \in AuditReportInputs :
                 CompleteAudit(id, date, auditReport) =>
                     /\ err' = NoError
                     /\ am'.Audits[id].Status = AuditStatusCompleted
                     /\ am'.Audits[id].ActualEndDate = date
                     /\ am'.Audits[id].Findings = am.Audits[id].Findings]_vars

\* an audit that was never started is completed and holds two findings
C21_Witness ==
    /\ "AUD1" \in DOMAIN am.Audits
    /\ am.Audits["AUD1"].Status = AuditStatusCompleted
    /\ am.Audits["AUD1"].ActualStartDate = NilTime
    /\ Len(am.Audits["AUD1"].Findings) = 2
    /\ err = NoError

\* the order of the priorities, lowest first
PriorityScale == <<PriorityLow, PriorityMedium, PriorityHigh, PriorityCritical>>

\* the priorities at or above the k-th of the scale
AtOrAbove(k) == {PriorityScale[j] : j \in k..Len(PriorityScale)}

\* C22: for every minPriority of the scale low < medium < high < critical,
\* GetHighPriorityRisks returns exactly the stored risks whose priority is
\* at or above it, and never a risk whose priority is empty.
C22_HighPriorityRisksExact ==
    \A k \in 1..Len(PriorityScale) :
        /\ GetHighPriorityRisks(PriorityScale[k]) =
               {id \in DOMAIN rm.Risks : rm.Risks[id].Priority \in AtOrAbove(k)}
        /\ \A id \in DOMAIN rm.Risks :
               rm.Risks[id].Priority = "" => id \notin GetHighPriorityRisks(PriorityScale[k])

\* of a medium risk and a risk never assessed the threshold medium returns
\* the first only
C22_Witness ==
    /\ DOMAIN rm.Risks = {"R1", "R2"}
    /\ rm.Risks["R1"].Priority = PriorityMedium
    /\ rm.Risks["R2"].Priority = ""
    /\ GetHighPriorityRisks(PriorityMedium) = {"R1"}
    /\ GetHighPriorityRisks(PriorityHigh) = {}

\* C23: through the MCP tools, once qms_identify_risk has returned a risk
\* ID, a call of qms_mitigate_risk with that ID and well-formed actions
\* returns success with the risk in status mitigated and the supplied
\* actions added to it.
C23_MitigateAfterIdentify ==
    [][\A id \in mcp.Issued, text \in ActionsJSONInputs :
          (unmarshalActions(text).ok
             /\ handleMitigateRisk([risk_id |-> id, actions_json |-> text])) =>
              /\ mcp'.Response.Kind = "text"
              /\ mcp'.Response.Risk # Nil
              /\ mcp'.Response.Risk.ID = id
              /\ mcp'.Response.Risk.Status = RiskStatusMitigated
              /\ mcp'.Response.Risk.Mitigation = unmarshalActions(text).actions]_vars

\* the findings of a list that carry the clause c, and those that carry the
\* clause c and the field f
ClauseFindings(findings, c) == SelectSeq(findings, LAMBDA e : e.Clause = c)

FieldFindings(findings, c, f) ==
    SelectSeq(findings, LAMBDA e : e.Clause = c /\ e.Field = f)

AllClauses == {"4.1", "4.2", "4.3", "4.4", "5.1", "5.2", "5.3", "6.1", "6.2"}

\* the clauses whose checker reads a substructure the snapshot lacks
AbsentClauses(o) ==
    (IF o.Context = Nil THEN {"4.1", "4.2"} ELSE {})
    \cup (IF o.Leadership = Nil THEN {"5.1", "5.2", "5.3"} ELSE {})
    \cup (IF o.QMS = Nil THEN {"4.3", "4.4", "6.1", "6.2"} ELSE {})

\* the snapshot with a complete substructure in the place of every absent one
Completed(o) ==
    [o EXCEPT !.Context = IF @ = Nil THEN FullContext ELSE @,
              !.Leadership = IF @ = Nil THEN FullLeadership ELSE @,
              !.QMS = IF @ = Nil THEN CountQMS(0, 0, 0) ELSE @]

\* C24: when Context, Leadership or QMS is absent, each clause whose checker
\* reads it (4.1, 4.2 for Context; 5.1, 5.2, 5.3 for Leadership; 4.3, 4.4,
\* 6.1, 6.2 for QMS) has exactly one finding, an error, and the other
\* clauses have the findings they have when nothing is absent.
C24_AbsentSubstructureOneError ==
    Validated =>
        /\ \A c \in AbsentClauses(org) :
               /\ Len(ClauseFindings(result.Errors, c)) = 1
               /\ Len(ClauseFindings(result.Warnings, c)) = 0
               /\ Len(ClauseFindings(result.Infos, c)) = 0
        /\ \A c \in AllClauses \ AbsentClauses(org) :
               /\ ClauseFindings(result.Errors, c)
                      = ClauseFindings(ValidateOrganization(Completed(org)).Errors, c)
               /\ ClauseFindings(result.Warnings, c)
                      = ClauseFindings(ValidateOrganization(Completed(org)).Warnings, c)
               /\ ClauseFindings(result.Infos, c)
                      = ClauseFindings(ValidateOrganization(Completed(org)).Infos, c)

\* a snapshot without Context and QMS, whose Leadership draws several
\* findings of clause 5.2, was validated: six errors for the absent parts
C24_Witness ==
    /\ Validated
    /\ org.Context = Nil /\ org.QMS = Nil /\ org.Leadership = PartLeadership
    /\ Len(ClauseFindings(result.Errors, "6.1")) = 1
    /\ Len(ClauseFindings(result.Errors, "4.1")) = 1
    /\ Len(ClauseFindings(result.Errors, "5.2")) > 1

\* the sum of f(i) over i in 1..n
RECURSIVE Sum(_, _)
Sum(f, n) == IF n = 0 THEN 0 ELSE f[n] + Sum(f, n - 1)

Count(cond) == IF cond THEN 1 ELSE 0

\* C25: with processes present, every process draws an error for an empty
\* name, a warning for no inputs, a warning for no outputs, an error for no
\* responsibilities, an error for no criteria and an info for no risks,
\* each whatever the other fields are; the findings of clause 4.4 are as
\* many as the deficient fields of all processes.
C25_ProcessChecksIndependent ==
    (Validated /\ org.QMS # Nil /\ Len(org.QMS.Processes) > 0) =>
        LET processes == org.QMS.Processes
            n == Len(processes)
            errors == [i \in 1..n |-> Count(processes[i].Name = "")
                                       + Count(processes[i].Responsibilities = <<>>)
                                       + Count(processes[i].Criteria = <<>>)]
            warnings == [i \in 1..n |-> Count(processes[i].Inputs = <<>>)
                                         + Count(processes[i].Outputs = <<>>)]
            infos == [i \in 1..n |-> Count(processes[i].Risks = <<>>)]
        IN  /\ Len(ClauseFindings(result.Errors, "4.4")) = Sum(errors, n)
            /\ Len(ClauseFindings(result.Warnings, "4.4")) = Sum(warnings, n)
            /\ Len(ClauseFindings(result.Infos, "4.4")) = Sum(infos, n)
            /\ Len(ClauseFindings(result.Errors \o result.Warnings \o result.Infos, "4.4"))
                   = Sum([i \in 1..n |-> Deficiencies(processes[i])], n)

\* two processes were validated, one with all six fields deficient and one
\* that lacks its criteria only: seven findings of clause 4.4
C25_Witness ==
    /\ Validated
    /\ org.QMS # Nil
    /\ Len(org.QMS.Processes) = 2
    /\ Deficiencies(org.QMS.Processes[1]) = 6
    /\ Deficiencies(org.QMS.Processes[2]) = 1
    /\ org.QMS.Processes[2].Criteria = <<>>
    /\ Len(ClauseFindings(result.Errors \o result.Warnings \o result.Infos, "4.4")) = 7

\* the types of the interested parties of the snapshot
TypesOfParties ==
    {org.Context.InterestedParties[i].Type : i \in 1..Len(org.Context.InterestedParties)}

\* C26: with a non-empty list of interested parties, the warning 'customers'
\* is raised exactly when no party has the type 'customer', the warning
\* 'suppliers' exactly when no party has the type 'supplier' or
\* 'external_provider', and a missing 'regulator' / 'authority' party
\* draws an info and nothing else.
C26_PartyBuckets ==
    (Validated /\ org.Context # Nil /\ Len(org.Context.InterestedParties) > 0) =>
        /\ Len(FieldFindings(result.Warnings, "4.2", "customers"))
               = Count("customer" \notin TypesOfParties)
        /\ Len(FieldFindings(result.Warnings, "4.2", "suppliers"))
               = Count("supplier" \notin TypesOfParties
                         /\ "external_provider" \notin TypesOfParties)
        /\ Len(FieldFindings(result.Infos, "4.2", "regulators"))
               = Count("regulator" \notin TypesOfParties
                         /\ "authority" \notin TypesOfParties)
        /\ Len(FieldFindings(result.Errors \o result.Warnings, "4.2", "regulators")) = 0
        /\ Len(FieldFindings(result.Errors \o result.Infos, "4.2", "customers")) = 0
        /\ Len(FieldFindings(result.Errors \o result.Infos, "4.2", "suppliers")) = 0

\* parties of the types 'external_provider', 'customers' and 'authority'
\* were validated: the customer warning alone was raised
C26_Witness ==
    /\ Validated
    /\ org.Context # Nil
    /\ Len(org.Context.InterestedParties) = 3
    /\ TypesOfParties = {"external_provider", "customers", "authority"}
    /\ Len(FieldFindings(result.Warnings, "4.2", "customers")) = 1
    /\ Len(FieldFindings(result.Warnings, "4.2", "suppliers")) = 0
    /\ Len(FieldFindings(result.Infos, "4.2", "regulators")) = 0

\* the entries of field f ("Risks" or "Opportunities") recorded in the QMS
\* of the snapshot and in its processes, one per place
RecordedIn(f) ==
    {<<0, j>> : j \in 1..Len(org.QMS[f])}
    \cup UNION {{<<i, j>> : j \in 1..Len(org.QMS.Processes[i][f])} :
                  i \in 1..Len(org.QMS.Processes)}

\* C27: with a QMS present, the warning 'No risks identified' of clause 6.1
\* is raised exactly when the QMS and its processes together record no
\* risk, and the info 'opportunities' exactly when they record no
\* opportunity; entries are counted per place, equal ones included.
C27_RiskTotalsOverProcesses ==
    (Validated /\ org.QMS # Nil) =>
        /\ Len(FieldFindings(result.Warnings, "6.1", "risks"))
               = Count(Cardinality(RecordedIn("Risks")) = 0)
        /\ Len(FieldFindings(result.Infos, "6.1", "opportunities"))
               = Count(Cardinality(RecordedIn("Opportunities")) = 0)
        /\ Len(FieldFindings(result.Errors \o result.Infos, "6.1", "risks")) = 0
        /\ Len(FieldFindings(result.Errors \o result.Warnings, "6.1", "opportunities")) = 0

\* a QMS without risks and opportunities of its own, whose second process
\* records the same risk twice, was validated: no risk warning, and the
\* opportunity info
C27_Witness ==
    /\ Validated
    /\ org.QMS # Nil
    /\ org.QMS.Risks = <<>> /\ org.QMS.Opportunities = <<>>
    /\ Len(org.QMS.Processes) = 2
    /\ org.QMS.Processes[1].Risks = <<>>
    /\ org.QMS.Processes[2].Risks = <<"risk", "risk">>
    /\ RecordedIn("Opportunities") = {}
    /\ Len(FieldFindings(result.Warnings, "6.1", "risks")) = 0
    /\ Len(FieldFindings(result.Infos, "6.1", "opportunities")) = 1

\* C28: in every state of the risk manager each entry of the register
\* carries as Priority the tier of its RiskScore (16 critical, 9..15 high,
\* 4..8 medium, below 4 low), the entries of risks that were identified
\* and never assessed included.
C28_EntryPriorityIsTier ==
    \A i \in 1..Len(OrganizationRisks) :
        OrganizationRisks[i].Priority = ClaimTier(OrganizationRisks[i].RiskScore)

\* the number of places of the list ids that hold docID
Occurrences(ids, docID) == Cardinality({i \in 1..Len(ids) : ids[i] = docID})

\* C29: after any sequence of AddDocument, UpdateDocument, ApproveDocument,
\* ReviewDocument and ArchiveDocument, a document's ID is listed in
\* Index.ByStatus under the document's current status only, and at most
\* once in each list of ByType, ByCategory, ByStatus, ByClause and
\* ByKeyword.
C29_IndexHoldsCurrentPositionsOnly ==
    \A docID \in DOMAIN dm.Documents :
        /\ \A status \in DOMAIN dm.Index.ByStatus :
               Occurrences(dm.Index.ByStatus[status], docID) > 0
                   => status = dm.Documents[docID].Status
        /\ \A f \in {"ByType", "ByCategory", "ByStatus", "ByClause", "ByKeyword"} :
               \A key \in DOMAIN dm.Index[f] :
                   Occurrences(dm.Index[f][key], docID) <= 1

\* both calls have returned
BothReturned == ~calls.Fatal /\ \A g \in Goroutines : calls.Of[g].pc = "done"

\* the risks of Risks that have no entry in Register.OrganizationRisks
Unregistered ==
    DOMAIN rm.Risks \ {OrganizationRisks[i].RiskID : i \in 1..Len(OrganizationRisks)}

\* C30: the risk manager holds no lock.  When two calls that write Risks
\* and then rebuild, sort and assign the register run one after the other,
\* the register they leave has an entry for every risk of Risks; when their
\* steps interleave they can leave a register that lacks one (C30_Witness).
C30_SerializedCallsRegisterAll ==
    (BothReturned /\ ~calls.Interleaved) => Unregistered = {}

\* the two calls interleaved, both returned, and the register lacks the
\* entry of a risk that Risks holds
C30_Witness ==
    /\ BothReturned
    /\ calls.Interleaved
    /\ DOMAIN rm.Risks = {"R1", "R2"}
    /\ Unregistered # {}

====
